---- MODULE Spec2Model ----
(***************************************************************************)
(* Trigger-to-matrix resolution of build_tools/github_actions:             *)
(* configure_ci.py (main, matrix_generator, generate_multi_arch_matrix,    *)
(* filter_known_names, determine_long_lived_branch) over the registry of   *)
(* amdgpu_family_matrix.py.                                                *)
(*                                                                         *)
(* Python strings that the code parses (labels, family keys, test names,   *)
(* branch names, dispatch inputs) are sequences of one-character strings,  *)
(* so that split / lower / translate / substring tests are computed.       *)
(* Strings the code only copies or concatenates (runner labels, display    *)
(* names, variant names, event names) are TLA+ strings.                    *)
(***************************************************************************)
EXTENDS Integers, Sequences, FiniteSets, TLC

(***************************************************************************)
(* Python string primitives                                                *)
(***************************************************************************)
UpperChars == <<"A","B","C","D","E","F","G","H","I","J","K","L","M",
                "N","O","P","Q","R","S","T","U","V","W","X","Y","Z">>
LowerChars == <<"a","b","c","d","e","f","g","h","i","j","k","l","m",
                "n","o","p","q","r","s","t","u","v","w","x","y","z">>

\* string.punctuation (the grave accent, which a TLA+ string cannot hold, is left out)
Punctuation == {"!","\"","#","$","%","&","'","(",")","*","+",",","-",".","/",
                ":",";","<","=",">","?","@","[","\\","]","^","_","{","|","}","~"}

\* the characters str.split() and str.strip() treat as whitespace
Whitespace == {" ","\t","\n","\r","\f"}

Range(s) == {s[i] : i \in DOMAIN s}

\* c.lower() for one character
LowerChar(c) ==
    IF \E i \in DOMAIN UpperChars : UpperChars[i] = c
    THEN LowerChars[CHOOSE i \in DOMAIN UpperChars : UpperChars[i] = c]
    ELSE c

\* s.lower()
Lower(s) == [i \in DOMAIN s |-> LowerChar(s[i])]

\* sub in s
Contains(s, sub) ==
    \E i \in 0..(Len(s) - Len(sub)) : SubSeq(s, i + 1, i + Len(sub)) = sub

\* s.startswith(prefix)
StartsWith(s, prefix) ==
    /\ Len(prefix) <= Len(s)
    /\ SubSeq(s, 1, Len(prefix)) = prefix

\* s.split(sep) for a one-character separator: always at least one part
RECURSIVE SplitFrom(_, _, _, _)
SplitFrom(s, sep, i, cur) ==
    IF i > Len(s) THEN <<cur>>
    ELSE IF s[i] = sep THEN <<cur>> \o SplitFrom(s, sep, i + 1, <<>>)
    ELSE SplitFrom(s, sep, i + 1, Append(cur, s[i]))

Split(s, sep) == SplitFrom(s, sep, 1, <<>>)

\* s.split(): maximal runs of non-whitespace characters, no empty parts
RECURSIVE SplitWsFrom(_, _, _)
SplitWsFrom(s, i, cur) ==
    IF i > Len(s) THEN (IF cur = <<>> THEN <<>> ELSE <<cur>>)
    ELSE IF s[i] \in Whitespace
         THEN (IF cur = <<>> THEN <<>> ELSE <<cur>>) \o SplitWsFrom(s, i + 1, <<>>)
         ELSE SplitWsFrom(s, i + 1, Append(cur, s[i]))

SplitWhitespace(s) == SplitWsFrom(s, 1, <<>>)

\* s.strip()
RECURSIVE LStrip(_)
LStrip(s) == IF s # <<>> /\ Head(s) \in Whitespace THEN LStrip(Tail(s)) ELSE s

RECURSIVE RStrip(_)
RStrip(s) ==
    IF s # <<>> /\ s[Len(s)] \in Whitespace THEN RStrip(SubSeq(s, 1, Len(s) - 1)) ELSE s

Strip(s) == RStrip(LStrip(s))

\* s.translate(str.maketrans(string.punctuation, " " * len(string.punctuation)))
Translate(s) == [i \in DOMAIN s |-> IF s[i] \in Punctuation THEN " " ELSE s[i]]

\* list(set(xs)): the distinct elements, in an order the caller must not rely on
RECURSIVE SetToSeq(_)
SetToSeq(S) ==
    IF S = {} THEN <<>>
    ELSE LET x == CHOOSE y \in S : TRUE IN <<x>> \o SetToSeq(S \ {x})

\* dict.get(key, default)
Get(d, key, default) == IF key \in DOMAIN d THEN d[key] ELSE default

(***************************************************************************)
(* amdgpu_family_matrix.py: the registry as written in the source.         *)
(* A PlatformEntry / BuildVariant dict is a function from its keys.        *)
(***************************************************************************)
Presubmit0 ==
    <<"g","f","x","9","4","x">> :>
        (  "linux" :> (   "test-runs-on" :> "Ubuntu-latest"
              @@ "test-runs-on-multi-gpu" :> "linux-mi325-8gpu-ossci-rocm"
              @@ "benchmark-runs-on" :> "linux-mi325-8gpu-ossci-rocm"
              @@ "family" :> "gfx94X-dcgpu"
              @@ "build_variants" :> <<"release", "asan", "tsan">>))
    @@
    <<"g","f","x","1","1","0","x">> :>
        (  "linux" :> (   "test-runs-on" :> ""
              @@ "family" :> "gfx110X-all"
              @@ "bypass_tests_for_releases" :> TRUE
              @@ "build_variants" :> <<"release">>
              @@ "sanity_check_only_for_family" :> TRUE)
        @@ "windows" :> (   "test-runs-on" :> "Windows-latest"
              @@ "family" :> "gfx110X-all"
              @@ "bypass_tests_for_releases" :> TRUE
              @@ "build_variants" :> <<"release">>
              @@ "sanity_check_only_for_family" :> TRUE))
    @@
    <<"g","f","x","1","1","5","1">> :>
        (  "linux" :> (   "test-runs-on" :> "linux-gfx1151-gpu-rocm"
              @@ "test-runs-on-kernel" :> (<<"o","e","m">> :> "linux-strix-halo-gpu-rocm-oem")
              @@ "family" :> "gfx1151"
              @@ "bypass_tests_for_releases" :> TRUE
              @@ "build_variants" :> <<"release">>
              @@ "sanity_check_only_for_family" :> TRUE)
        @@ "windows" :> (   "test-runs-on" :> "Windows-latest"
              @@ "benchmark-runs-on" :> "Windows-latest"
              @@ "family" :> "gfx1151"
              @@ "build_variants" :> <<"release">>))
    @@
    <<"g","f","x","1","2","0","x">> :>
        (  "linux" :> (   "test-runs-on" :> "Ubuntu-latest"
              @@ "family" :> "gfx120X-all"
              @@ "bypass_tests_for_releases" :> TRUE
              @@ "build_variants" :> <<"release">>
              @@ "sanity_check_only_for_family" :> TRUE)
        @@ "windows" :> (   "test-runs-on" :> "Windows-latest"
              @@ "family" :> "gfx120X-all"
              @@ "bypass_tests_for_releases" :> TRUE
              @@ "build_variants" :> <<"release">>))

Postsubmit0 ==
    <<"g","f","x","9","5","0">> :>
        (  "linux" :> (   "test-runs-on" :> "Ubuntu-latest"
              @@ "family" :> "gfx950-dcgpu"
              @@ "build_variants" :> <<"release", "asan", "tsan">>))

Nightly0 ==
    <<"g","f","x","9","0","x">> :>
        (  "linux" :> (   "test-runs-on" :> "Ubuntu-latest"
              @@ "family" :> "gfx90X-dcgpu"
              @@ "sanity_check_only_for_family" :> TRUE
              @@ "build_variants" :> <<"release">>)
        @@ "windows" :> (   "test-runs-on" :> "Windows-latest"
              @@ "family" :> "gfx90X-dcgpu"
              @@ "build_variants" :> <<"release">>
              @@ "expect_pytorch_failure" :> TRUE))
    @@
    <<"g","f","x","1","0","1","x">> :>
        (  "linux" :> (   "test-runs-on" :> "Ubuntu-latest"
              @@ "family" :> "gfx101X-dgpu"
              @@ "expect_failure" :> TRUE
              @@ "build_variants" :> <<"release">>
              @@ "expect_pytorch_failure" :> TRUE)
        @@ "windows" :> (   "test-runs-on" :> "Windows-latest"
              @@ "family" :> "gfx101X-dgpu"
              @@ "build_variants" :> <<"release">>
              @@ "expect_pytorch_failure" :> TRUE))
    @@
    <<"g","f","x","1","0","3","x">> :>
        (  "linux" :> (   "test-runs-on" :> ""
              @@ "family" :> "gfx103X-dgpu"
              @@ "build_variants" :> <<"release">>
              @@ "sanity_check_only_for_family" :> TRUE)
        @@ "windows" :> (   "test-runs-on" :> ""
              @@ "family" :> "gfx103X-dgpu"
              @@ "build_variants" :> <<"release">>
              @@ "sanity_check_only_for_family" :> TRUE))
    @@
    <<"g","f","x","1","1","5","0">> :>
        (  "linux" :> (   "test-runs-on" :> ""
              @@ "family" :> "gfx1150"
              @@ "build_variants" :> <<"release">>
              @@ "sanity_check_only_for_family" :> TRUE)
        @@ "windows" :> (   "test-runs-on" :> ""
              @@ "family" :> "gfx1150"
              @@ "build_variants" :> <<"release">>))
    @@
    <<"g","f","x","1","1","5","2">> :>
        (  "linux" :> (   "test-runs-on" :> ""
              @@ "family" :> "gfx1152"
              @@ "build_variants" :> <<"release">>)
        @@ "windows" :> (   "test-runs-on" :> ""
              @@ "family" :> "gfx1152"
              @@ "build_variants" :> <<"release">>))
    @@
    <<"g","f","x","1","1","5","3">> :>
        (  "linux" :> (   "test-runs-on" :> ""
              @@ "family" :> "gfx1153"
              @@ "build_variants" :> <<"release">>
              @@ "sanity_check_only_for_family" :> TRUE)
        @@ "windows" :> (   "test-runs-on" :> ""
              @@ "family" :> "gfx1153"
              @@ "build_variants" :> <<"release">>))

BuildVariants0 ==
    "linux" :>
        (  "release" :> (   "build_variant_label" :> "release"
                  @@ "build_variant_suffix" :> ""
                  @@ "build_variant_cmake_preset" :> "")
        @@ "asan" :> (   "build_variant_label" :> "asan"
                  @@ "build_variant_suffix" :> "asan"
                  @@ "build_variant_cmake_preset" :> "linux-release-asan"
                  @@ "expect_failure" :> TRUE)
        @@ "tsan" :> (   "build_variant_label" :> "tsan"
                  @@ "build_variant_suffix" :> "tsan"
                  @@ "build_variant_cmake_preset" :> "linux-release-tsan"
                  @@ "expect_failure" :> TRUE))
    @@
    "windows" :>
        (  "release" :> (   "build_variant_label" :> "release"
                  @@ "build_variant_suffix" :> ""
                  @@ "build_variant_cmake_preset" :> "windows-release"))

(***************************************************************************)
(* fetch_test_configurations.test_matrix: only its key set is read.        *)
(***************************************************************************)
test_matrix ==
    { <<"r","o","c","b","l","a","s">>,
      <<"h","i","p","c","u","b">>,
      <<"r","o","c","p","r","i","m">> }

(***************************************************************************)
(* String constants of configure_ci.py                                     *)
(***************************************************************************)
s_gfx          == <<"g","f","x">>
s_test_colon   == <<"t","e","s","t",":">>
s_skip_ci      == <<"s","k","i","p","-","c","i">>
s_run_all      == <<"r","u","n","-","a","l","l","-","a","r","c","h","s","-","c","i">>
s_test_runner  == <<"t","e","s","t","_","r","u","n","n","e","r">>

long_lived_full_match ==
    << <<"m","a","i","n">>, <<"t","e","s","t","-","b","r","a","n","c","h">> >>

long_lived_prefix_match ==
    << <<"r","e","l","e","a","s","e","/","t","h","e","r","o","c","k","-">> >>

AllTriggerTypes == <<"presubmit", "postsubmit", "nightly">>

VARIABLES
    amdgpu_family_info_matrix_presubmit,    \* module global, patched in place by the overlay
    amdgpu_family_info_matrix_postsubmit,   \* module global, patched in place by the overlay
    amdgpu_family_info_matrix_nightly,      \* module global, patched in place by the overlay
    all_build_variants,                     \* module global
    environ,            \* LOAD_TEST_RUNNERS_FROM_VAR, ROCM_THEROCK_TEST_RUNNERS
    base_args,          \* the base_args dict built in __main__
    linux_families,     \* linux_families["amdgpu_families"]
    windows_families,   \* windows_families["amdgpu_families"]
    pc,                 \* position of main
    linux_output,       \* result of the Linux matrix_generator call
    windows_output,     \* result of the Windows matrix_generator call
    modified_paths,     \* main: what get_git_modified_paths returned
    submodule_paths,    \* main: what get_git_submodule_paths returned
    output,             \* enable_build_jobs, test_type, test_type_reason
    call,               \* a direct call of one function: its name and arguments
    ret                 \* the value that call returned

vars ==
    << amdgpu_family_info_matrix_presubmit, amdgpu_family_info_matrix_postsubmit,
       amdgpu_family_info_matrix_nightly, all_build_variants, environ, base_args,
       linux_families, windows_families, pc, linux_output, windows_output,
       modified_paths, submodule_paths, output, call, ret >>

\* the three trigger tables, as get_all_families_for_trigger_types names them
matrix_map ==
    [ presubmit  |-> amdgpu_family_info_matrix_presubmit,
      postsubmit |-> amdgpu_family_info_matrix_postsubmit,
      nightly    |-> amdgpu_family_info_matrix_nightly ]

(***************************************************************************)
(* amdgpu_family_matrix.py: overlay and table lookup                       *)
(***************************************************************************)
\* a label added to the one the entry has: what C14 rules out
SetRunner_Append(table, key, platform, label) ==
    IF key \in DOMAIN table /\ platform \in DOMAIN table[key]
    THEN [table EXCEPT ![key][platform] =
                           ("test-runs-on" :> (@["test-runs-on"] \o "," \o label)) @@ @]
    ELSE table

\* an assignment without the membership tests, which makes the platform entry
\* of a family the table has: what C15 rules out
SetRunner_Unguarded(table, key, platform, label) ==
    IF key \in DOMAIN table
    THEN [table EXCEPT ![key] =
             (platform :> (("test-runs-on" :> label)
                           @@ (IF platform \in DOMAIN @ THEN @[platform] ELSE <<>>)))
             @@ @]
    ELSE table

\* table[key][platform]["test-runs-on"] = label, guarded as in the source
SetRunner(table, key, platform, label) ==
    IF key \in DOMAIN table /\ platform \in DOMAIN table[key]
    THEN [table EXCEPT ![key][platform] = ("test-runs-on" :> label) @@ @]
    ELSE table

\* the inner loop over test_runner_dict[key].keys()
RECURSIVE ApplyPlatforms(_, _, _, _)
ApplyPlatforms(mm, key, platforms, i) ==
    IF i > Len(platforms) THEN mm
    ELSE LET p == platforms[i].platform
             l == platforms[i].label
         IN ApplyPlatforms(
                [ presubmit  |-> SetRunner(mm.presubmit, key, p, l),
                  postsubmit |-> SetRunner(mm.postsubmit, key, p, l),
                  nightly    |-> SetRunner(mm.nightly, key, p, l) ],
                key, platforms, i + 1)

\* the outer loop over test_runner_dict.keys(); a value without .keys() raises
RECURSIVE ApplyItems(_, _, _)
ApplyItems(mm, items, i) ==
    IF i > Len(items) THEN [matrix_map |-> mm, error |-> "none"]
    ELSE IF ~items[i].is_object THEN [matrix_map |-> mm, error |-> "AttributeError"]
    ELSE ApplyItems(ApplyPlatforms(mm, items[i].key, items[i].platforms, 1), items, i + 1)

\* text is the content of ROCM_THEROCK_TEST_RUNNERS as json.loads sees it:
\* parses = FALSE when it is no JSON, is_object = FALSE when it is JSON but no
\* object, otherwise items lists its (key, value) pairs in document order.
load_test_runner_from_gh_variables(mm, text) ==
    IF ~text.parses THEN [matrix_map |-> mm, error |-> "JSONDecodeError"]
    ELSE IF ~text.is_object THEN [matrix_map |-> mm, error |-> "AttributeError"]
    ELSE ApplyItems(mm, text.items, 1)

\* result[family_name] = family_config over the requested tables, later wins
RECURSIVE CombineTables(_, _, _)
CombineTables(mm, trigger_types, i) ==
    IF i = 0 THEN <<>>
    ELSE (IF trigger_types[i] \in DOMAIN mm THEN mm[trigger_types[i]] ELSE <<>>)
         @@ CombineTables(mm, trigger_types, i - 1)

\* lines 276-288, given what the overlay step left
CombinedResult(loaded, trigger_types) ==
    [ matrix_map |-> loaded.matrix_map,
      error      |-> loaded.error,
      result     |-> IF loaded.error = "none"
                     THEN CombineTables(loaded.matrix_map, trigger_types, Len(trigger_types))
                     ELSE <<>> ]

\* a call that never applies the overlay: what C28 rules out
get_all_families_for_trigger_types_NoOverlay(mm, env, trigger_types) ==
    CombinedResult([matrix_map |-> mm, error |-> "none"], trigger_types)

\* one call: the overlay (when enabled) on the globals mm, then the merge.
\* Returns the globals after the call, the error raised, and the result dict.
get_all_families_for_trigger_types(mm, env, trigger_types) ==
    CombinedResult(
        IF env.load_test_runners_from_var
        THEN load_test_runner_from_gh_variables(mm, env.ROCM_THEROCK_TEST_RUNNERS)
        ELSE [matrix_map |-> mm, error |-> "none"],
        trigger_types)

(***************************************************************************)
(* configure_ci.py: input helpers                                          *)
(***************************************************************************)
\* the pr_labels argument is held as the labels array of the parsed JSON document
get_pr_labels(args) == [i \in DOMAIN args.pr_labels |-> args.pr_labels[i].name]

IsNonEmpty(s) == s # <<>>

get_workflow_dispatch_additional_label_options(args) ==
    LET raw == args.workflow_dispatch_additional_label_options
        parts == Split(raw, ",")
        stripped == [i \in DOMAIN parts |-> Strip(parts[i])]
    IN IF raw # <<>> THEN SelectSeq(stripped, IsNonEmpty) ELSE <<>>

\* filter_known_names without the lowercasing of line 131: what C8 rules out
filter_known_names_CaseSensitive(requested_names, name_type, target_matrix) ==
    IF name_type = "target"
    THEN IF target_matrix = <<>>
         THEN [error |-> "AssertionError", names |-> <<>>]
         ELSE [error |-> "none",
               names |-> SelectSeq(requested_names,
                                   LAMBDA name : name \in DOMAIN target_matrix[1])]
    ELSE IF name_type = "test"
         THEN [error |-> "none",
               names |-> SelectSeq(requested_names, LAMBDA name : name \in test_matrix)]
         ELSE [error |-> "none", names |-> <<>>]

\* target_matrix is Optional: <<>> is None, <<d>> is the dict d
filter_known_names(requested_names, name_type, target_matrix) ==
    LET lowered == [i \in DOMAIN requested_names |-> Lower(requested_names[i])]
        IsTargetKey(name) == name \in DOMAIN target_matrix[1]
        IsTestKey(name) == name \in test_matrix
    IN IF name_type = "target"
       THEN IF target_matrix = <<>>
            THEN [error |-> "AssertionError", names |-> <<>>]
            ELSE [error |-> "none", names |-> SelectSeq(lowered, IsTargetKey)]
       ELSE IF name_type = "test"
            THEN [error |-> "none", names |-> SelectSeq(lowered, IsTestKey)]
            ELSE [error |-> "none", names |-> <<>>]

\* a rule that looks for the names anywhere in the branch name: what C26 rules out
determine_long_lived_branch_Contains(branch_name) ==
    \/ \E i \in DOMAIN long_lived_full_match : Contains(branch_name, long_lived_full_match[i])
    \/ \E i \in DOMAIN long_lived_prefix_match :
          Contains(branch_name, long_lived_prefix_match[i])

\* lines 238-250
determine_long_lived_branch(branch_name) ==
    \/ \E i \in DOMAIN long_lived_full_match : branch_name = long_lived_full_match[i]
    \/ \E i \in DOMAIN long_lived_prefix_match :
          StartsWith(branch_name, long_lived_prefix_match[i])

(***************************************************************************)
(* configure_ci.py: matrix_generator, selection                            *)
(* A selection state st carries the module globals as the calls of         *)
(* get_all_families_for_trigger_types leave them, the exception raised so  *)
(* far ("none" when none) and the two local lists.                         *)
(***************************************************************************)
\* a list kept as it is, repeats included: what C12 rules out
Unique_Keep(xs) == xs

\* list(set(xs))
Unique(xs) == SetToSeq(Range(xs))

\* for target in get_all_families_for_trigger_types(...): the keys of the dict
Keys(d) == SetToSeq(DOMAIN d)

\* trigger types that fall back to presubmit when no trigger is known: what
\* C19 rules out
ActiveTriggerTypes_Fallback(is_pull_request, is_push, is_schedule, is_long_lived_branch) ==
    IF is_schedule THEN AllTriggerTypes
    ELSE IF is_push /\ is_long_lived_branch THEN <<"presubmit", "postsubmit">>
    ELSE <<"presubmit">>

\* lines 280-291
ActiveTriggerTypes(is_pull_request, is_push, is_schedule, is_long_lived_branch) ==
    (IF is_pull_request THEN <<"presubmit">> ELSE <<>>)
    \o (IF is_push
        THEN (IF is_long_lived_branch THEN <<"presubmit", "postsubmit">> ELSE <<"presubmit">>)
        ELSE <<>>)
    \o (IF is_schedule THEN AllTriggerTypes ELSE <<>>)

\* a lookup matrix built from the active trigger types alone, without the
\* widening of lines 295-299: what C6 rules out
LookupTriggerTypes_ActiveOnly(is_pull_request, is_workflow_dispatch, is_push, is_schedule, args) ==
    ActiveTriggerTypes(is_pull_request, is_push, is_schedule,
                       determine_long_lived_branch(args.branch_name))

\* lines 293-302: the tables the lookup matrix is built from; none raises
LookupTriggerTypes(is_pull_request, is_workflow_dispatch, is_push, is_schedule, args) ==
    IF is_workflow_dispatch \/ is_pull_request THEN AllTriggerTypes
    ELSE ActiveTriggerTypes(is_pull_request, is_push, is_schedule,
                            determine_long_lived_branch(args.branch_name))

\* lines 269-302: the empty lists and the first table lookup
SelectionStart(got) ==
    [ matrix_map |-> got.matrix_map,
      error |-> got.error,
      lookup_matrix |-> got.result,
      selected_target_names |-> <<>>,
      selected_test_names |-> <<>>,
      requested_target_names |-> <<>>,
      requested_test_names |-> <<>> ]

ClassifyStage(mm, env, lookup_trigger_types) ==
    SelectionStart(get_all_families_for_trigger_types(mm, env, lookup_trigger_types))

\* a family input split at commas only: what C7 rules out
RequestedTargetNames_CommaOnly(input_gpu_targets) == Split(input_gpu_targets, ",")

\* lines 323-324
RequestedTargetNames(input_gpu_targets) == SplitWhitespace(Translate(input_gpu_targets))

\* lines 337-340
WorkflowDispatchTestLabels(labels_str) ==
    LET parts == Split(labels_str, ",") IN [i \in DOMAIN parts |-> Strip(parts[i])]

\* lines 342-349: _, test_name = label.split(":") raises unless there are two parts
RECURSIVE RequestedTestNames(_, _, _)
RequestedTestNames(labels, i, names) ==
    IF i > Len(labels) THEN [error |-> "none", names |-> names]
    ELSE IF ~Contains(labels[i], s_test_colon)
    THEN RequestedTestNames(labels, i + 1, names)
    ELSE IF Len(Split(labels[i], ":")) # 2 THEN [error |-> "ValueError", names |-> <<>>]
    ELSE RequestedTestNames(labels, i + 1, Append(names, Split(labels[i], ":")[2]))

\* lines 326-328 and 354
DispatchSelect(st, targets, requested) ==
    IF targets.error # "none" THEN [st EXCEPT !.error = targets.error]
    ELSE IF requested.error # "none" THEN [st EXCEPT !.error = requested.error]
    ELSE [st EXCEPT !.selected_target_names = @ \o targets.names,
                    !.selected_test_names =
                        @ \o filter_known_names(requested.names, "test", <<>>).names]

\* lines 314-354
DispatchStage(is_workflow_dispatch, st, args, families, platform) ==
    IF ~is_workflow_dispatch \/ st.error # "none" THEN st
    ELSE DispatchSelect(
             st,
             filter_known_names(RequestedTargetNames(families), "target",
                                <<st.lookup_matrix>>),
             RequestedTestNames(
                 WorkflowDispatchTestLabels(
                     IF platform = "linux" THEN args.workflow_dispatch_linux_test_labels
                     ELSE args.workflow_dispatch_windows_test_labels),
                 1, <<>>))

\* lines 373-376
AddRequestedTarget(sc, label) ==
    IF Contains(label, s_gfx)
    THEN [sc EXCEPT !.requested_target_names = Append(@, Split(label, "-")[1])]
    ELSE sc

\* lines 378-383, for a label that split(":") cuts in two
AddRequestedTest(sc, label) ==
    IF Contains(label, s_test_colon)
    THEN [sc EXCEPT !.requested_test_names = Append(@, Split(label, ":")[2])]
    ELSE sc

\* lines 371-400: the scan of the PR labels from index i on
RECURSIVE ScanLabels(_, _, _, _)

\* a scan that steps over "run-all-archs-ci": what C2 rules out
RunAllArchs_Ignored(sc, all, env, pr_labels, i) ==
    ScanLabels([sc EXCEPT !.matrix_map = all.matrix_map], env, pr_labels, i + 1)

\* lines 391-400
RunAllArchs(sc, all, env, pr_labels, i) ==
    IF all.error # "none"
    THEN [sc EXCEPT !.matrix_map = all.matrix_map, !.error = all.error]
    ELSE ScanLabels([sc EXCEPT !.matrix_map = all.matrix_map,
                               !.selected_target_names = Keys(all.result)],
                    env, pr_labels, i + 1)

\* a scan that clears the lists at skip-ci and goes on: what C20 rules out
ScanLiteralLabels_NoBreak(sc, env, pr_labels, i) ==
    IF pr_labels[i] = s_skip_ci
    THEN ScanLabels([sc EXCEPT !.selected_target_names = <<>>,
                               !.selected_test_names = <<>>],
                    env, pr_labels, i + 1)
    ELSE IF pr_labels[i] = s_run_all
    THEN RunAllArchs(sc,
                     get_all_families_for_trigger_types(sc.matrix_map, env, AllTriggerTypes),
                     env, pr_labels, i)
    ELSE ScanLabels(sc, env, pr_labels, i + 1)

\* lines 384-400: skip-ci clears the two selected lists and leaves the loop
ScanLiteralLabels(sc, env, pr_labels, i) ==
    IF pr_labels[i] = s_skip_ci
    THEN [sc EXCEPT !.selected_target_names = <<>>, !.selected_test_names = <<>>]
    ELSE IF pr_labels[i] = s_run_all
    THEN RunAllArchs(sc,
                     get_all_families_for_trigger_types(sc.matrix_map, env, AllTriggerTypes),
                     env, pr_labels, i)
    ELSE ScanLabels(sc, env, pr_labels, i + 1)

ScanLabels(sc, env, pr_labels, i) ==
    IF i > Len(pr_labels) THEN sc
    ELSE IF Contains(pr_labels[i], s_test_colon) /\ Len(Split(pr_labels[i], ":")) # 2
    THEN [AddRequestedTarget(sc, pr_labels[i]) EXCEPT !.error = "ValueError"]
    ELSE ScanLiteralLabels(
             AddRequestedTest(AddRequestedTarget(sc, pr_labels[i]), pr_labels[i]),
             env, pr_labels, i)

\* lines 402-410: the requested names that are known join the selected lists
MergeRequested(sc) ==
    IF sc.error # "none" THEN sc
    ELSE [sc EXCEPT
            !.selected_target_names =
                @ \o filter_known_names(sc.requested_target_names, "target",
                                        <<sc.lookup_matrix>>).names,
            !.selected_test_names =
                @ \o filter_known_names(sc.requested_test_names, "test", <<>>).names]

\* a pull request selection that starts empty instead of with the presubmit
\* keys: what C5 rules out
PullRequestSelect_NoDefaults(st, pre, env, args) ==
    IF pre.error # "none"
    THEN [st EXCEPT !.matrix_map = pre.matrix_map, !.error = pre.error]
    ELSE MergeRequested(
             ScanLabels([st EXCEPT !.matrix_map = pre.matrix_map,
                                   !.requested_target_names = <<>>,
                                   !.requested_test_names = <<>>],
                        env, get_pr_labels(args), 1))

\* lines 359-410, given the presubmit table pre
PullRequestSelect(st, pre, env, args) ==
    IF pre.error # "none"
    THEN [st EXCEPT !.matrix_map = pre.matrix_map, !.error = pre.error]
    ELSE MergeRequested(
             ScanLabels([st EXCEPT !.matrix_map = pre.matrix_map,
                                   !.selected_target_names = @ \o Keys(pre.result),
                                   !.requested_target_names = <<>>,
                                   !.requested_test_names = <<>>],
                        env, get_pr_labels(args), 1))

\* lines 356-410
PullRequestStage(is_pull_request, st, env, args) ==
    IF ~is_pull_request \/ st.error # "none" THEN st
    ELSE PullRequestSelect(
             st, get_all_families_for_trigger_types(st.matrix_map, env, <<"presubmit">>),
             env, args)

\* for target in <table>: selected_target_names.append(target)
AddDefaults(st, got) ==
    [st EXCEPT !.matrix_map = got.matrix_map,
               !.error = got.error,
               !.selected_target_names = @ \o Keys(got.result)]

\* a push that takes the presubmit table on every branch: what C4 rules out
PushStage_PresubmitOnly(is_push, st, env, is_long_lived_branch) ==
    IF ~is_push \/ st.error # "none" THEN st
    ELSE AddDefaults(st, get_all_families_for_trigger_types(st.matrix_map, env,
                                                            <<"presubmit">>))

\* lines 412-430
PushStage(is_push, st, env, is_long_lived_branch) ==
    IF ~is_push \/ st.error # "none" THEN st
    ELSE AddDefaults(st, get_all_families_for_trigger_types(
                             st.matrix_map, env,
                             IF is_long_lived_branch THEN <<"presubmit", "postsubmit">>
                                                     ELSE <<"presubmit">>))

\* a schedule that leaves the nightly table out: what C3 rules out
ScheduleStage_NoNightly(is_schedule, st, env) ==
    IF ~is_schedule \/ st.error # "none" THEN st
    ELSE AddDefaults(st, get_all_families_for_trigger_types(
                             st.matrix_map, env, <<"presubmit", "postsubmit">>))

\* lines 432-440
ScheduleStage(is_schedule, st, env) ==
    IF ~is_schedule \/ st.error # "none" THEN st
    ELSE AddDefaults(st, get_all_families_for_trigger_types(st.matrix_map, env,
                                                            AllTriggerTypes))

(***************************************************************************)
(* configure_ci.py: matrix_generator, standard expansion                   *)
(***************************************************************************)
\* a substitution that leaves the other families their runners: what C22 rules out
RECURSIVE ApplyTestRunnerLabel_NoBlank(_, _, _, _)
ApplyTestRunnerLabel_NoBlank(matrix_row, platform_info, label_options, i) ==
    IF i > Len(label_options) THEN [error |-> "none", row |-> matrix_row]
    ELSE IF ~Contains(label_options[i], s_test_runner)
    THEN ApplyTestRunnerLabel_NoBlank(matrix_row, platform_info, label_options, i + 1)
    ELSE IF Len(Split(label_options[i], ":")) # 2
    THEN [error |-> "ValueError", row |-> matrix_row]
    ELSE IF /\ "test-runs-on-kernel" \in DOMAIN platform_info
            /\ Split(label_options[i], ":")[2] \in DOMAIN platform_info["test-runs-on-kernel"]
    THEN [error |-> "none",
          row |-> ("test-runs-on" :>
                      platform_info["test-runs-on-kernel"][Split(label_options[i], ":")[2]])
                  @@ matrix_row]
    ELSE [error |-> "none", row |-> matrix_row]

\* a scan from the last label option backwards, so that the last label
\* containing "test_runner" decides: what C23 rules out
RECURSIVE ApplyTestRunnerLabel_LastWins(_, _, _, _)
ApplyTestRunnerLabel_LastWins(matrix_row, platform_info, label_options, i) ==
    IF i > Len(label_options) THEN [error |-> "none", row |-> matrix_row]
    ELSE IF ~Contains(label_options[Len(label_options) + 1 - i], s_test_runner)
    THEN ApplyTestRunnerLabel_LastWins(matrix_row, platform_info, label_options, i + 1)
    ELSE IF Len(Split(label_options[Len(label_options) + 1 - i], ":")) # 2
    THEN [error |-> "ValueError", row |-> matrix_row]
    ELSE IF /\ "test-runs-on-kernel" \in DOMAIN platform_info
            /\ Split(label_options[Len(label_options) + 1 - i], ":")[2]
                  \in DOMAIN platform_info["test-runs-on-kernel"]
    THEN [error |-> "none",
          row |-> ("test-runs-on" :>
                      platform_info["test-runs-on-kernel"][
                          Split(label_options[Len(label_options) + 1 - i], ":")[2]])
                  @@ matrix_row]
    ELSE [error |-> "none",
          row |-> IF "test-runs-on-multi-gpu" \in DOMAIN platform_info
                  THEN ("test-runs-on" :> "") @@ ("test-runs-on-multi-gpu" :> "")
                       @@ matrix_row
                  ELSE ("test-runs-on" :> "") @@ matrix_row]

\* lines 509-534: the first label containing "test_runner" decides the runner
RECURSIVE ApplyTestRunnerLabel(_, _, _, _)
ApplyTestRunnerLabel(matrix_row, platform_info, label_options, i) ==
    IF i > Len(label_options) THEN [error |-> "none", row |-> matrix_row]
    ELSE IF Contains(label_options[i], s_test_runner)
    THEN LET parts == Split(label_options[i], ":") IN
         IF Len(parts) # 2 THEN [error |-> "ValueError", row |-> matrix_row]
         ELSE IF /\ "test-runs-on-kernel" \in DOMAIN platform_info
                 /\ parts[2] \in DOMAIN platform_info["test-runs-on-kernel"]
         THEN [error |-> "none",
               row |-> ("test-runs-on" :> platform_info["test-runs-on-kernel"][parts[2]])
                       @@ matrix_row]
         ELSE [error |-> "none",
               row |-> IF "test-runs-on-multi-gpu" \in DOMAIN platform_info
                       THEN ("test-runs-on" :> "") @@ ("test-runs-on-multi-gpu" :> "")
                            @@ matrix_row
                       ELSE ("test-runs-on" :> "") @@ matrix_row]
    ELSE ApplyTestRunnerLabel(matrix_row, platform_info, label_options, i + 1)

\* lines 495-498: a variant that expects failure sets the flag on the row
WithExpectFailure(matrix_row, build_variant_info) ==
    IF Get(build_variant_info, "expect_failure", FALSE)
    THEN ("expect_failure" :> TRUE) @@ matrix_row
    ELSE matrix_row

\* del d[key]
Del(d, key) == [k \in (DOMAIN d) \ {key} |-> d[k]]

\* an artifact_group that leaves the suffix out: what C21 rules out
ArtifactGroup_NoSuffix(platform_info, build_variant_info) == platform_info["family"]

\* lines 502-507
ArtifactGroup(platform_info, build_variant_info) ==
    IF build_variant_info["build_variant_suffix"] # ""
    THEN platform_info["family"] \o "-" \o build_variant_info["build_variant_suffix"]
    ELSE platform_info["family"]

\* lines 487-507: dict(platform_info), expect_failure, del, update, artifact_group
MatrixRow(platform_info, build_variant_info) ==
    ("artifact_group" :> ArtifactGroup(platform_info, build_variant_info))
    @@ build_variant_info
    @@ Del(WithExpectFailure(platform_info, build_variant_info), "build_variants")

\* line 536, or the exception the row raised
AppendRow(acc, made) ==
    IF made.error # "none" THEN [error |-> made.error, rows |-> <<>>]
    ELSE [acc EXCEPT !.rows = Append(@, made.row)]

\* rows for every variant of the family's list, without the filter of lines
\* 484-485: what C9 rules out
RECURSIVE VariantRows_Unfiltered(_, _, _, _, _, _, _)
VariantRows_Unfiltered(acc, platform_info, build_variant_names, i, platform_build_variants, args, label_options) ==
    IF i > Len(build_variant_names) \/ acc.error # "none" THEN acc
    ELSE IF build_variant_names[i] \notin DOMAIN platform_build_variants
    THEN [error |-> "AssertionError", rows |-> <<>>]
    ELSE VariantRows_Unfiltered(
             AppendRow(acc,
                       ApplyTestRunnerLabel(
                           MatrixRow(platform_info,
                                     platform_build_variants[build_variant_names[i]]),
                           platform_info, label_options, 1)),
             platform_info, build_variant_names, i + 1, platform_build_variants, args,
             label_options)

\* lines 479-536: the rows of one family, one per matching entry of its list,
\* added to acc = [error, rows]
RECURSIVE VariantRows(_, _, _, _, _, _, _)
VariantRows(acc, platform_info, build_variant_names, i, platform_build_variants, args, label_options) ==
    IF i > Len(build_variant_names) \/ acc.error # "none" THEN acc
    ELSE IF build_variant_names[i] # args.build_variant
    THEN VariantRows(acc, platform_info, build_variant_names, i + 1,
                     platform_build_variants, args, label_options)
    ELSE IF build_variant_names[i] \notin DOMAIN platform_build_variants
    THEN [error |-> "AssertionError", rows |-> <<>>]
    ELSE VariantRows(
             AppendRow(acc,
                       ApplyTestRunnerLabel(
                           MatrixRow(platform_info,
                                     platform_build_variants[build_variant_names[i]]),
                           platform_info, label_options, 1)),
             platform_info, build_variant_names, i + 1, platform_build_variants, args,
             label_options)

\* the platform a family is expanded for when the platform test of line 470
\* is left out: the requested one if the family has it, else one it has
SomePlatform(platform_set, platform) ==
    IF platform \in DOMAIN platform_set THEN platform
    ELSE CHOOSE p \in DOMAIN platform_set : TRUE

\* an expansion without the platform test: what C10 rules out
RECURSIVE StandardMatrix_AnyPlatform(_, _, _, _, _, _, _, _)
StandardMatrix_AnyPlatform(acc, target_names, i, lookup_matrix, platform, platform_build_variants, args, label_options) ==
    IF i > Len(target_names) \/ acc.error # "none" THEN acc
    ELSE StandardMatrix_AnyPlatform(
             VariantRows(acc,
                         lookup_matrix[target_names[i]][
                             SomePlatform(lookup_matrix[target_names[i]], platform)],
                         lookup_matrix[target_names[i]][
                             SomePlatform(lookup_matrix[target_names[i]], platform)][
                                 "build_variants"],
                         1, platform_build_variants, args, label_options),
             target_names, i + 1, lookup_matrix, platform, platform_build_variants, args,
             label_options)

\* lines 465-536, added to acc = [error, rows]
RECURSIVE StandardMatrix(_, _, _, _, _, _, _, _)
StandardMatrix(acc, target_names, i, lookup_matrix, platform, platform_build_variants, args, label_options) ==
    IF i > Len(target_names) \/ acc.error # "none" THEN acc
    ELSE IF target_names[i] \notin DOMAIN lookup_matrix
    THEN [error |-> "TypeError", rows |-> <<>>]
    ELSE IF platform \notin DOMAIN lookup_matrix[target_names[i]]
    THEN StandardMatrix(acc, target_names, i + 1, lookup_matrix, platform,
                        platform_build_variants, args, label_options)
    ELSE IF "build_variants" \notin DOMAIN lookup_matrix[target_names[i]][platform]
    THEN [error |-> "AssertionError", rows |-> <<>>]
    ELSE StandardMatrix(
             VariantRows(acc, lookup_matrix[target_names[i]][platform],
                         lookup_matrix[target_names[i]][platform]["build_variants"], 1,
                         platform_build_variants, args, label_options),
             target_names, i + 1, lookup_matrix, platform, platform_build_variants, args,
             label_options)

(***************************************************************************)
(* configure_ci.py: generate_multi_arch_matrix                             *)
(***************************************************************************)
\* a member appended for every key, whatever the group lists: what C13 rules out
AddFamily_NoDedupe(family_info_list, platform_info) ==
    Append(family_info_list,
           ("amdgpu_family" :> platform_info["family"])
           @@ ("test-runs-on" :> Get(platform_info, "test-runs-on", ""))
           @@ ("sanity_check_only_for_family" :>
                   Get(platform_info, "sanity_check_only_for_family", FALSE)))

\* lines 199-212: append the family unless its display name is already listed
AddFamily(family_info_list, platform_info) ==
    IF \E j \in DOMAIN family_info_list :
           family_info_list[j]["amdgpu_family"] = platform_info["family"]
    THEN family_info_list
    ELSE Append(family_info_list,
                ("amdgpu_family" :> platform_info["family"])
                @@ ("test-runs-on" :> Get(platform_info, "test-runs-on", ""))
                @@ ("sanity_check_only_for_family" :>
                        Get(platform_info, "sanity_check_only_for_family", FALSE)))

\* a collection that takes every variant the family lists, requested or not:
\* what C29 rules out
RECURSIVE CollectVariants_AllVariants(_, _, _, _, _)
CollectVariants_AllVariants(variant_to_family_info, platform_info, build_variant_names, i, args) ==
    IF i > Len(build_variant_names) THEN variant_to_family_info
    ELSE CollectVariants_AllVariants(
             (build_variant_names[i] :>
                  AddFamily(Get(variant_to_family_info, build_variant_names[i], <<>>),
                            platform_info))
             @@ variant_to_family_info,
             platform_info, build_variant_names, i + 1, args)

\* lines 189-212: the build_variants of one family, from index i on
RECURSIVE CollectVariants(_, _, _, _, _)
CollectVariants(variant_to_family_info, platform_info, build_variant_names, i, args) ==
    IF i > Len(build_variant_names) THEN variant_to_family_info
    ELSE CollectVariants(
             IF build_variant_names[i] # args.build_variant THEN variant_to_family_info
             ELSE (build_variant_names[i] :>
                       AddFamily(Get(variant_to_family_info, build_variant_names[i], <<>>),
                                 platform_info))
                  @@ variant_to_family_info,
             platform_info, build_variant_names, i + 1, args)

\* lines 181-212
RECURSIVE CollectFamilies(_, _, _, _, _, _)
CollectFamilies(variant_to_family_info, target_names, i, lookup_matrix, platform, args) ==
    IF i > Len(target_names) THEN variant_to_family_info
    ELSE CollectFamilies(
             IF platform \notin DOMAIN Get(lookup_matrix, target_names[i], <<>>)
             THEN variant_to_family_info
             ELSE CollectVariants(
                      variant_to_family_info, lookup_matrix[target_names[i]][platform],
                      Get(lookup_matrix[target_names[i]][platform], "build_variants", <<>>),
                      1, args),
             target_names, i + 1, lookup_matrix, platform, args)

\* ";".join(names)
RECURSIVE Join(_, _)
Join(names, i) ==
    IF i > Len(names) THEN ""
    ELSE IF i = Len(names) THEN names[i]
    ELSE names[i] \o ";" \o Join(names, i + 1)

\* lines 221-232
GroupRow(info, family_info_list) ==
    ("matrix_per_family_json" :> family_info_list)
    @@ ("dist_amdgpu_families" :>
            Join([j \in DOMAIN family_info_list |-> family_info_list[j]["amdgpu_family"]], 1))
    @@ ("artifact_group" :>
            "multi-arch-" \o (IF Get(info, "build_variant_suffix", "") # ""
                              THEN info["build_variant_suffix"] ELSE "release"))
    @@ ("build_variant_label" :> info["build_variant_label"])
    @@ ("build_variant_suffix" :> info["build_variant_suffix"])
    @@ ("build_variant_cmake_preset" :> info["build_variant_cmake_preset"])
    @@ ("expect_failure" :> Get(info, "expect_failure", FALSE))

\* lines 216-233: one entry per variant whose info is not empty
RECURSIVE GroupRows(_, _, _, _, _)
GroupRows(matrix_output, variant_names, i, variant_to_family_info, platform_build_variants) ==
    IF i > Len(variant_names) THEN matrix_output
    ELSE GroupRows(
             IF DOMAIN Get(platform_build_variants, variant_names[i], <<>>) = {}
             THEN matrix_output
             ELSE Append(matrix_output,
                         GroupRow(platform_build_variants[variant_names[i]],
                                  variant_to_family_info[variant_names[i]])),
             variant_names, i + 1, variant_to_family_info, platform_build_variants)

\* lines 214-235, given the collected families
GroupsOf(variant_to_family_info, platform_build_variants) ==
    GroupRows(<<>>, Keys(variant_to_family_info), 1, variant_to_family_info,
              platform_build_variants)

\* matrix_per_family_json holds the list that json.dumps serialises
generate_multi_arch_matrix(target_names, lookup_matrix, platform, platform_build_variants, args) ==
    GroupsOf(CollectFamilies(<<>>, target_names, 1, lookup_matrix, platform, args),
             platform_build_variants)

(***************************************************************************)
(* configure_ci.py: matrix_generator                                       *)
(***************************************************************************)
\* what a call that raised leaves behind: the globals, the exception, no value
Raised(mm, error) ==
    [matrix_map |-> mm, error |-> error, targets |-> <<>>, tests |-> <<>>, matrix |-> <<>>]

\* the pair matrix_generator returns, with the globals and unique_target_names
Returned(mm, targets, tests, made) ==
    IF made.error # "none" THEN Raised(mm, made.error)
    ELSE [matrix_map |-> mm, error |-> "none", targets |-> targets, tests |-> tests,
          matrix |-> made.rows]

\* the entry of family key on platform after the expansion, had the rows been
\* the entries themselves and not copies of them
AliasedEntry(entry, rows) ==
    IF \E i \in DOMAIN rows : "family" \in DOMAIN rows[i] /\ rows[i]["family"] = entry["family"]
    THEN rows[CHOOSE i \in DOMAIN rows :
                 "family" \in DOMAIN rows[i] /\ rows[i]["family"] = entry["family"]]
    ELSE entry

AliasedTable(table, rows, platform) ==
    [key \in DOMAIN table |->
        [p \in DOMAIN table[key] |->
            IF p = platform THEN AliasedEntry(table[key][p], rows) ELSE table[key][p]]]

\* an expansion that writes each row into the entry it was made from
\* (matrix_row = platform_info): what C27 rules out
RegistryAfterExpansion_Aliased(mm, made, platform) ==
    IF made.error # "none" THEN mm
    ELSE [t \in DOMAIN mm |-> AliasedTable(mm[t], made.rows, platform)]

\* line 488 (matrix_row = dict(platform_info)) and lines 202-211: each row is
\* a new dict, so what lines 495-534 assign and delete stays in the row and
\* the tables are after the expansion what they were before it
RegistryAfterExpansion(mm, made, platform) == mm

\* lines 536-540
ReturnRows(mm, targets, tests, made, platform) ==
    Returned(RegistryAfterExpansion(mm, made, platform), targets, tests, made)

\* lines 451-540.  lookup_matrix holds the family dicts of the globals
\* themselves, so the expansion reads the entries as the last overlay left them.
ExpandUnique(mm, unique_target_names, unique_test_names, lookup_matrix, args, platform, multi_arch, platform_build_variants) ==
    ReturnRows(mm, unique_target_names, unique_test_names,
             IF multi_arch
             THEN [error |-> "none",
                   rows |-> generate_multi_arch_matrix(unique_target_names, lookup_matrix,
                                                       platform, platform_build_variants,
                                                       args)]
             ELSE StandardMatrix([error |-> "none", rows |-> <<>>], unique_target_names, 1,
                                 lookup_matrix, platform, platform_build_variants, args,
                                 get_pr_labels(args)
                                 \o get_workflow_dispatch_additional_label_options(args)),
               platform)

\* lines 442-449, after the selection st: dedupe, then the platform's variant table
Expand(st, lookup_trigger_types, args, platform, multi_arch, build_variants) ==
    IF st.error # "none" THEN Raised(st.matrix_map, st.error)
    ELSE IF platform \notin DOMAIN build_variants
    THEN Raised(st.matrix_map, "AssertionError")
    ELSE ExpandUnique(st.matrix_map,
                      Unique(st.selected_target_names),
                      Unique(st.selected_test_names),
                      CombineTables(st.matrix_map, lookup_trigger_types,
                                    Len(lookup_trigger_types)),
                      args, platform, multi_arch, build_variants[platform])

\* mm: the three trigger tables, build_variants: all_build_variants, env: os.environ.
\* The result adds to the returned pair the globals as the call leaves them, the
\* exception it raised and unique_target_names (targets).
matrix_generator(mm, build_variants, env, is_pull_request, is_workflow_dispatch, is_push, is_schedule, args, families, platform, multi_arch) ==
    IF LookupTriggerTypes(is_pull_request, is_workflow_dispatch, is_push, is_schedule,
                          args) = <<>>
    THEN Raised(mm, "AssertionError")
    ELSE Expand(
             ScheduleStage(is_schedule,
                 PushStage(is_push,
                     PullRequestStage(is_pull_request,
                         DispatchStage(is_workflow_dispatch,
                             ClassifyStage(mm, env,
                                 LookupTriggerTypes(is_pull_request, is_workflow_dispatch,
                                                    is_push, is_schedule, args)),
                             args, families, platform),
                         env, args),
                     env, determine_long_lived_branch(args.branch_name)),
                 env),
             LookupTriggerTypes(is_pull_request, is_workflow_dispatch, is_push, is_schedule,
                                args),
             args, platform, multi_arch, build_variants)

(***************************************************************************)
(* configure_ci.py: main                                                   *)
(***************************************************************************)
\* list(set(a) & set(b))
Intersection(a, b) == SetToSeq(Range(a) \cap Range(b))

\* a decision that never looks at the submodule paths: what C17 rules out
TestTypeDecision_NoSubmodules(is_schedule, modified, submodules, ci_run_required, linux_test_output, windows_test_output) ==
    [ enable_build_jobs |-> is_schedule \/ ci_run_required,
      test_type |-> IF is_schedule \/ linux_test_output # <<>> \/ windows_test_output # <<>>
                    THEN "full" ELSE "smoke",
      test_type_reason |-> [kind |-> "default", detail |-> <<>>] ]

\* lines 617-647
TestTypeDecision(is_schedule, modified, submodules, ci_run_required, linux_test_output, windows_test_output) ==
    LET matching_submodule_paths == Intersection(submodules, modified)
        smoke == [ enable_build_jobs |-> ci_run_required,
                   test_type |-> "smoke",
                   test_type_reason |-> [kind |-> "default", detail |-> <<>>] ]
        sub == IF matching_submodule_paths # <<>>
               THEN [smoke EXCEPT !.test_type = "full",
                                  !.test_type_reason = [kind |-> "submodule",
                                                        detail |-> matching_submodule_paths]]
               ELSE smoke
    IN IF is_schedule
       THEN [ enable_build_jobs |-> TRUE,
              test_type |-> "full",
              test_type_reason |-> [kind |-> "schedule", detail |-> <<>>] ]
       ELSE IF linux_test_output # <<>> \/ windows_test_output # <<>>
       THEN [sub EXCEPT !.test_type = "full",
                        !.test_type_reason =
                            [kind |-> "test_label",
                             detail |-> Unique(linux_test_output \o windows_test_output)]]
       ELSE sub

\* state: "pending" before the call, then "returned" or "raised"
NoOutput ==
    [state |-> "pending", error |-> "none", targets |-> <<>>, tests |-> <<>>, matrix |-> <<>>]

NoDecision ==
    [ enable_build_jobs |-> FALSE, test_type |-> "",
      test_type_reason |-> [kind |-> "", detail |-> <<>>] ]

\* what matrix_generator returned, with the exception and unique_target_names
OutputOf(r) ==
    [ state |-> IF r.error = "none" THEN "returned" ELSE "raised",
      error |-> r.error, targets |-> r.targets, tests |-> r.tests, matrix |-> r.matrix ]

GeneratorCall(args, families, platform) ==
    matrix_generator(matrix_map, all_build_variants, environ,
                     args.github_event_name = "pull_request",
                     args.github_event_name = "workflow_dispatch",
                     args.github_event_name = "push",
                     args.github_event_name = "schedule",
                     args, families, platform, args.multi_arch)

\* lines 590-599
MatrixGeneratorLinux ==
    /\ pc = "start"
    /\ LET r == GeneratorCall(base_args, linux_families, "linux") IN
       /\ amdgpu_family_info_matrix_presubmit' = r.matrix_map.presubmit
       /\ amdgpu_family_info_matrix_postsubmit' = r.matrix_map.postsubmit
       /\ amdgpu_family_info_matrix_nightly' = r.matrix_map.nightly
       /\ linux_output' = OutputOf(r)
       /\ pc' = IF r.error = "none" THEN "linux_done" ELSE "aborted"
    /\ UNCHANGED << all_build_variants, environ, base_args, linux_families,
                    windows_families, windows_output, modified_paths, submodule_paths,
                    output, call, ret >>

\* lines 605-614
MatrixGeneratorWindows ==
    /\ pc = "linux_done"
    /\ LET r == GeneratorCall(base_args, windows_families, "windows") IN
       /\ amdgpu_family_info_matrix_presubmit' = r.matrix_map.presubmit
       /\ amdgpu_family_info_matrix_postsubmit' = r.matrix_map.postsubmit
       /\ amdgpu_family_info_matrix_nightly' = r.matrix_map.nightly
       /\ windows_output' = OutputOf(r)
       /\ pc' = IF r.error = "none" THEN "windows_done" ELSE "aborted"
    /\ UNCHANGED << all_build_variants, environ, base_args, linux_families,
                    windows_families, linux_output, modified_paths, submodule_paths,
                    output, call, ret >>

\* what the path-filter collaborators may return
ModifiedPathCases == { <<>>, <<"README.md">>, <<"README.md", "rocm-libraries">> }

SubmodulePathCases == { <<>>, <<"rocm-libraries", "rocm-systems">> }

\* lines 617-647, then the write of the outputs
DecideTestType ==
    /\ pc = "windows_done"
    /\ \E modified \in ModifiedPathCases, submodules \in SubmodulePathCases,
          ci_run_required \in BOOLEAN :
          \* a scheduled run asks for neither list (lines 621-624)
          /\ modified_paths' = IF base_args.github_event_name = "schedule" THEN <<>>
                                ELSE modified
          /\ submodule_paths' = IF base_args.github_event_name = "schedule" THEN <<>>
                                 ELSE submodules
          /\ output' = TestTypeDecision(base_args.github_event_name = "schedule",
                                        modified, submodules, ci_run_required,
                                        linux_output.tests, windows_output.tests)
    /\ pc' = "done"
    /\ UNCHANGED << amdgpu_family_info_matrix_presubmit,
                    amdgpu_family_info_matrix_postsubmit,
                    amdgpu_family_info_matrix_nightly, all_build_variants, environ,
                    base_args, linux_families, windows_families, linux_output,
                    windows_output, call, ret >>

(***************************************************************************)
(* Inputs of one run                                                       *)
(***************************************************************************)
MaxLabels == 2

Events == {"pull_request", "push", "schedule", "workflow_dispatch", "workflow_call"}

b_main    == <<"m","a","i","n">>
b_feature == <<"f","e","a","t","u","r","e">>

l_gfx950_linux    == <<"g","f","x","9","5","0","-","l","i","n","u","x">>
l_gfx90X          == <<"g","f","x","9","0","X">>
l_gfx9999_linux   == <<"g","f","x","9","9","9","9","-","l","i","n","u","x">>
l_test_rocblas    == <<"t","e","s","t",":","r","o","c","b","l","a","s">>
l_test_bogus      == <<"t","e","s","t",":","b","o","g","u","s">>
l_test_a_b        == <<"t","e","s","t",":","a",":","b">>
l_test_runner_oem == <<"t","e","s","t","_","r","u","n","n","e","r",":","o","e","m">>
l_test_runner_lts == <<"t","e","s","t","_","r","u","n","n","e","r",":","l","t","s">>

\* labels a pull request may carry
LabelPool ==
    { s_skip_ci, s_run_all, l_gfx950_linux, l_gfx90X, l_gfx9999_linux, l_test_rocblas,
      l_test_bogus, l_test_a_b, l_test_runner_oem, l_test_runner_lts }

\* labels left in PR_LABELS on a run that is no pull request
OtherLabelPool == { s_skip_ci, l_gfx950_linux, l_test_rocblas, l_test_runner_oem }

LabelLists(pool, n) == UNION { [1..k -> pool] : k \in 0..n }

\* the parsed PR_LABELS document: a list of label objects
LabelDocs(pool, n) ==
    { [i \in DOMAIN names |-> [name |-> names[i]]] : names \in LabelLists(pool, n) }

\* INPUT_*_AMDGPU_FAMILIES, *_TEST_LABELS, ADDITIONAL_LABEL_OPTIONS
DispatchDefault ==
    [ linux_families |-> <<>>, windows_families |-> <<>>,
      linux_test_labels |-> <<>>, windows_test_labels |-> <<>>,
      additional_label_options |-> <<>> ]

DispatchA ==
    [ \* "gfx94X ,|.gfx1201"
      linux_families |-> <<"g","f","x","9","4","X"," ",",","|",".","g","f","x","1","2","0","1">>,
      \* "gfx110X,gfx9999"
      windows_families |-> <<"g","f","x","1","1","0","X",",","g","f","x","9","9","9","9">>,
      \* "test:rocblas, test:hipcub"
      linux_test_labels |-> <<"t","e","s","t",":","r","o","c","b","l","a","s",","," ",
                              "t","e","s","t",":","h","i","p","c","u","b">>,
      windows_test_labels |-> <<>>,
      \* "test_runner:oem"
      additional_label_options |-> l_test_runner_oem ]

DispatchB ==
    [ \* "gfx950;GFX90X"
      linux_families |-> <<"g","f","x","9","5","0",";","G","F","X","9","0","X">>,
      windows_families |-> <<"g","f","x","9","5","0",";","G","F","X","9","0","X">>,
      \* "test:rocprim,test:nope"
      linux_test_labels |-> <<"t","e","s","t",":","r","o","c","p","r","i","m",",",
                              "t","e","s","t",":","n","o","p","e">>,
      \* "test:rocblas"
      windows_test_labels |-> l_test_rocblas,
      additional_label_options |-> <<>> ]

DispatchC ==
    [ linux_families |-> <<>>,
      \* "gfx1151"
      windows_families |-> <<"g","f","x","1","1","5","1">>,
      linux_test_labels |-> <<>>,
      \* "test:a:b"
      windows_test_labels |-> l_test_a_b,
      \* " test_runner:lts , "
      additional_label_options |-> <<" ","t","e","s","t","_","r","u","n","n","e","r",":",
                                     "l","t","s"," ",","," ">> ]

DispatchCases == {DispatchDefault, DispatchA, DispatchB, DispatchC}

\* ROCM_THEROCK_TEST_RUNNERS: an object naming two known pairs, a platform the
\* family lacks and a family no table has
RunnersObject ==
    [ parses |-> TRUE, is_object |-> TRUE,
      items |-> <<
        [ key |-> <<"g","f","x","9","4","x">>, is_object |-> TRUE,
          platforms |-> << [platform |-> "linux", label |-> "linux-mi325-1gpu-ossci-rocm"],
                           [platform |-> "windows", label |-> "windows-mi325-gpu-rocm"] >> ],
        [ key |-> <<"g","f","x","9","0","x">>, is_object |-> TRUE,
          platforms |-> << [platform |-> "windows", label |-> "windows-gfx90X-gpu-rocm"] >> ],
        [ key |-> <<"g","f","x","9","9","9","9">>, is_object |-> TRUE,
          platforms |-> << [platform |-> "linux", label |-> "linux-gfx9999-gpu-rocm"] >> ] >> ]

EnvironCases ==
    { [load_test_runners_from_var |-> flag, ROCM_THEROCK_TEST_RUNNERS |-> RunnersObject] :
        flag \in BOOLEAN }

BuildVariantNames == {"release", "asan"}

\* the base_args dict of __main__ for one choice of the inputs
BaseArgs(event, branch, labels, dispatch, variant, multi) ==
    [ github_event_name |-> event,
      branch_name |-> branch,
      pr_labels |-> labels,
      build_variant |-> variant,
      multi_arch |-> multi,
      workflow_dispatch_linux_test_labels |-> dispatch.linux_test_labels,
      workflow_dispatch_windows_test_labels |-> dispatch.windows_test_labels,
      workflow_dispatch_additional_label_options |-> dispatch.additional_label_options ]

\* the globals as the module text defines them, before any call
InitGlobals ==
    /\ amdgpu_family_info_matrix_presubmit = Presubmit0
    /\ amdgpu_family_info_matrix_postsubmit = Postsubmit0
    /\ amdgpu_family_info_matrix_nightly = Nightly0
    /\ all_build_variants = BuildVariants0

InitRun(event, branch, labels, dispatch, variant, multi) ==
    /\ base_args = BaseArgs(event, branch, labels, dispatch, variant, multi)
    /\ linux_families = dispatch.linux_families
    /\ windows_families = dispatch.windows_families
    /\ pc = "start"
    /\ linux_output = NoOutput
    /\ windows_output = NoOutput
    /\ modified_paths = <<>>
    /\ submodule_paths = <<>>
    /\ output = NoDecision

Init ==
    /\ InitGlobals
    /\ environ \in EnvironCases
    /\ call = [op |-> "main"]
    /\ ret = <<>>
    /\ \E event \in Events, variant \in BuildVariantNames, multi \in BOOLEAN :
          \/ /\ event = "pull_request"
             /\ \E labels \in LabelDocs(LabelPool, MaxLabels),
                   dispatch \in {DispatchDefault, DispatchA} :
                   InitRun(event, b_feature, labels, dispatch, variant, multi)
          \/ /\ event # "pull_request"
             /\ \E labels \in LabelDocs(OtherLabelPool, MaxLabels - 1),
                   dispatch \in DispatchCases, branch \in {b_main, b_feature} :
                   InitRun(event, branch, labels, dispatch, variant, multi)

Next ==
    \/ MatrixGeneratorLinux
    \/ MatrixGeneratorWindows
    \/ DecideTestType

Spec == Init /\ [][Next]_vars

(***************************************************************************)
(* Direct calls of filter_known_names                                      *)
(***************************************************************************)
MaxNames == 3

\* requested names: known, known after case folding, unknown
NamePool ==
    { <<"g","f","x","9","4","x">>, <<"G","F","X","9","5","0">>,
      <<"g","f","x","9","9","9","9">>, <<"r","o","c","b","l","a","s">>,
      <<"R","o","c","B","L","A","S">>, <<"b","o","g","u","s">> }

FilterCalls ==
    { [ op |-> "filter_known_names", requested_names |-> names,
        name_type |-> kind[1], target_matrix |-> kind[2] ] :
        names \in LabelLists(NamePool, MaxNames),
        kind \in { <<"target", <<Presubmit0>> >>,
                   <<"target", <<Nightly0 @@ Postsubmit0 @@ Presubmit0>> >>,
                   <<"test", <<>> >> } }

InitFilter ==
    /\ InitGlobals
    /\ environ = [load_test_runners_from_var |-> FALSE,
                  ROCM_THEROCK_TEST_RUNNERS |-> RunnersObject]
    /\ InitRun("workflow_dispatch", b_main, <<>>, DispatchDefault, "release", FALSE)
    /\ call \in FilterCalls
    /\ ret = <<>>

FilterKnownNamesCall ==
    /\ pc = "start"
    /\ call.op = "filter_known_names"
    /\ ret' = filter_known_names(call.requested_names, call.name_type, call.target_matrix)
    /\ pc' = "returned"
    /\ UNCHANGED << amdgpu_family_info_matrix_presubmit,
                    amdgpu_family_info_matrix_postsubmit,
                    amdgpu_family_info_matrix_nightly, all_build_variants, environ,
                    base_args, linux_families, windows_families, linux_output,
                    windows_output, modified_paths, submodule_paths, output, call >>

NextFilter == FilterKnownNamesCall

SpecFilter == InitFilter /\ [][NextFilter]_vars


(***************************************************************************)
(* Runs of main on other registries than the one the module text defines   *)
(***************************************************************************)
MaxRegistryLabels == 1

k_gfx90x == <<"g","f","x","9","0","x">>
k_gfx94x == <<"g","f","x","9","4","x">>
k_gfx942 == <<"g","f","x","9","4","2">>

\* the four module globals of amdgpu_family_matrix.py as the text defines them
Registry0 ==
    [ presubmit |-> Presubmit0, postsubmit |-> Postsubmit0, nightly |-> Nightly0,
      build_variants |-> BuildVariants0 ]

\* the linux release variant spells its flag out: "expect_failure": False
RegistryExplicitFalse ==
    [Registry0 EXCEPT !.build_variants["linux"]["release"] =
                          ("expect_failure" :> FALSE) @@ @]

\* a second postsubmit key whose linux entry carries the display name of gfx94x
RegistrySharedName ==
    [Registry0 EXCEPT !.postsubmit =
        (k_gfx942 :> ("linux" :> (   "test-runs-on" :> "linux-mi300-1gpu-ossci-rocm"
                                  @@ "family" :> "gfx94X-dcgpu"
                                  @@ "sanity_check_only_for_family" :> TRUE
                                  @@ "build_variants" :> <<"release", "asan">>)))
        @@ @]

\* all_build_variants without a table for windows
RegistryNoWindowsTable ==
    [Registry0 EXCEPT !.build_variants = ("linux" :> BuildVariants0["linux"])]

\* the linux entry of the nightly family gfx90x without its build_variants list
RegistryNoVariantList ==
    [Registry0 EXCEPT !.nightly[k_gfx90x]["linux"] = Del(@, "build_variants")]

InitRegistry(reg) ==
    /\ amdgpu_family_info_matrix_presubmit = reg.presubmit
    /\ amdgpu_family_info_matrix_postsubmit = reg.postsubmit
    /\ amdgpu_family_info_matrix_nightly = reg.nightly
    /\ all_build_variants = reg.build_variants

\* a run of main on one of the registries, on a trigger that selects by table
InitRunsOn(registries, pool) ==
    /\ \E reg \in registries : InitRegistry(reg)
    /\ environ \in EnvironCases
    /\ call = [op |-> "main"]
    /\ ret = <<>>
    /\ \E event \in {"pull_request", "push", "schedule"}, variant \in BuildVariantNames,
          multi \in BOOLEAN, labels \in LabelDocs(pool, MaxRegistryLabels),
          branch \in {b_main, b_feature} :
          InitRun(event, branch, labels, DispatchDefault, variant, multi)

\* registries that are well formed
InitSound ==
    InitRunsOn({Registry0, RegistryExplicitFalse, RegistrySharedName},
               {s_run_all, l_gfx950_linux, l_test_runner_oem})

SpecRegistry == InitSound /\ [][Next]_vars

\* registries with a configuration error
InitBroken ==
    InitRunsOn({RegistryNoWindowsTable, RegistryNoVariantList}, {s_run_all, l_gfx90X})

SpecBroken == InitBroken /\ [][Next]_vars

(***************************************************************************)
(* Pull requests with longer label lists                                   *)
(***************************************************************************)
MaxScanLabels == 3

ScanPool == { s_skip_ci, s_run_all, l_gfx950_linux, l_gfx90X, l_test_rocblas }

InitScan ==
    /\ InitGlobals
    /\ environ \in EnvironCases
    /\ call = [op |-> "main"]
    /\ ret = <<>>
    /\ \E labels \in LabelDocs(ScanPool, MaxScanLabels), multi \in BOOLEAN :
          InitRun("pull_request", b_feature, labels, DispatchDefault, "release", multi)

SpecScan == InitScan /\ [][Next]_vars

(***************************************************************************)
(* Direct calls of get_all_families_for_trigger_types                      *)
(***************************************************************************)
MaxCalls == 3

\* ROCM_THEROCK_TEST_RUNNERS: "{}", the default of line 235
RunnersEmpty == [parses |-> TRUE, is_object |-> TRUE, items |-> <<>>]

\* {"gfx1151": {"linux": "linux-strix-halo-gpu-rocm-oem"}}
RunnersOne ==
    [ parses |-> TRUE, is_object |-> TRUE,
      items |-> << [ key |-> <<"g","f","x","1","1","5","1">>, is_object |-> TRUE,
                     platforms |-> << [platform |-> "linux",
                                       label |-> "linux-strix-halo-gpu-rocm-oem"] >> ] >> ]

\* text that is no JSON document
RunnersNotJson == [parses |-> FALSE, is_object |-> FALSE, items |-> <<>>]

\* a JSON document that is no object, such as [] or 3
RunnersNotObject == [parses |-> TRUE, is_object |-> FALSE, items |-> <<>>]

\* {"gfx94x": {"linux": "linux-mi325-1gpu-ossci-rocm"}, "gfx950": "linux-mi355"}
RunnersBadValue ==
    [ parses |-> TRUE, is_object |-> TRUE,
      items |-> << [ key |-> k_gfx94x, is_object |-> TRUE,
                     platforms |-> << [platform |-> "linux",
                                       label |-> "linux-mi325-1gpu-ossci-rocm"] >> ],
                   [ key |-> <<"g","f","x","9","5","0">>, is_object |-> FALSE,
                     platforms |-> <<>> ] >> ]

RunnerTexts ==
    { RunnersObject, RunnersEmpty, RunnersOne, RunnersNotJson, RunnersNotObject,
      RunnersBadValue }

TriggerTypeLists == { <<"presubmit">>, <<"presubmit", "postsubmit">>, AllTriggerTypes }

InitOverlay ==
    /\ InitGlobals
    /\ \E flag \in BOOLEAN, text \in RunnerTexts :
          environ = [load_test_runners_from_var |-> flag,
                     ROCM_THEROCK_TEST_RUNNERS |-> text]
    /\ InitRun("schedule", b_main, <<>>, DispatchDefault, "release", FALSE)
    /\ \E trigger_types \in TriggerTypeLists :
          call = [op |-> "get_all_families_for_trigger_types",
                  trigger_types |-> trigger_types]
    /\ ret = [calls |-> 0, error |-> "none", result |-> <<>>]

\* one more call with the same argument; ret counts the calls made
GetAllFamiliesCall ==
    /\ call.op = "get_all_families_for_trigger_types"
    /\ ret.calls < MaxCalls
    /\ LET got == get_all_families_for_trigger_types(matrix_map, environ,
                                                     call.trigger_types) IN
       /\ amdgpu_family_info_matrix_presubmit' = got.matrix_map.presubmit
       /\ amdgpu_family_info_matrix_postsubmit' = got.matrix_map.postsubmit
       /\ amdgpu_family_info_matrix_nightly' = got.matrix_map.nightly
       /\ ret' = [calls |-> ret.calls + 1, error |-> got.error, result |-> got.result]
    /\ UNCHANGED << all_build_variants, environ, base_args, linux_families,
                    windows_families, pc, linux_output, windows_output, modified_paths,
                    submodule_paths, output, call >>

NextOverlay == GetAllFamiliesCall

SpecOverlay == InitOverlay /\ [][NextOverlay]_vars

(***************************************************************************)
(* Direct calls of determine_long_lived_branch                             *)
(***************************************************************************)
\* what may stand before, in and after a long-lived name
BranchPrefixes == { <<>>, <<"m","y","-">>, <<"x","/">> }

BranchCores ==
    { <<>>,
      <<"m","a","i","n">>, <<"M","a","i","n">>, <<"M","A","I","N">>,
      <<"t","e","s","t","-","b","r","a","n","c","h">>,
      <<"T","e","s","t","-","B","r","a","n","c","h">>,
      <<"r","e","l","e","a","s","e","/","t","h","e","r","o","c","k","-">>,
      <<"r","e","l","e","a","s","e","/","t","h","e","r","o","c","k">>,
      <<"R","e","l","e","a","s","e","/","T","h","e","R","o","c","k","-">> }

BranchSuffixes == { <<>>, <<"l","i","n","e">>, <<"1">>, <<"-","7",".","0">> }

BranchNames ==
    { prefix \o core \o suffix :
        prefix \in BranchPrefixes, core \in BranchCores, suffix \in BranchSuffixes }

InitBranch ==
    /\ InitGlobals
    /\ environ = [load_test_runners_from_var |-> FALSE,
                  ROCM_THEROCK_TEST_RUNNERS |-> RunnersObject]
    /\ \E branch \in BranchNames :
          /\ InitRun("push", branch, <<>>, DispatchDefault, "release", FALSE)
          /\ call = [op |-> "determine_long_lived_branch", branch_name |-> branch]
    /\ ret = <<>>

DetermineLongLivedBranchCall ==
    /\ pc = "start"
    /\ call.op = "determine_long_lived_branch"
    /\ ret' = [is_long_lived_branch |-> determine_long_lived_branch(call.branch_name)]
    /\ pc' = "returned"
    /\ UNCHANGED << amdgpu_family_info_matrix_presubmit,
                    amdgpu_family_info_matrix_postsubmit,
                    amdgpu_family_info_matrix_nightly, all_build_variants, environ,
                    base_args, linux_families, windows_families, linux_output,
                    windows_output, modified_paths, submodule_paths, output, call >>

NextBranch == DetermineLongLivedBranchCall

SpecBranch == InitBranch /\ [][NextBranch]_vars
(***************************************************************************)
(* Properties                                                              *)
(***************************************************************************)
Event == base_args.github_event_name

Labels == get_pr_labels(base_args)

HasLabel(label) == \E i \in DOMAIN Labels : Labels[i] = label

PresubmitKeys == DOMAIN amdgpu_family_info_matrix_presubmit

PostsubmitKeys == DOMAIN amdgpu_family_info_matrix_postsubmit

NightlyKeys == DOMAIN amdgpu_family_info_matrix_nightly

AllKeys == PresubmitKeys \cup PostsubmitKeys \cup NightlyKeys

\* the entry of family key on platform in whichever table holds it
EntryOf(key, platform) ==
    IF key \in NightlyKeys THEN amdgpu_family_info_matrix_nightly[key][platform]
    ELSE IF key \in PostsubmitKeys THEN amdgpu_family_info_matrix_postsubmit[key][platform]
    ELSE amdgpu_family_info_matrix_presubmit[key][platform]

PlatformsOf(key) ==
    IF key \in NightlyKeys THEN DOMAIN amdgpu_family_info_matrix_nightly[key]
    ELSE IF key \in PostsubmitKeys THEN DOMAIN amdgpu_family_info_matrix_postsubmit[key]
    ELSE IF key \in PresubmitKeys THEN DOMAIN amdgpu_family_info_matrix_presubmit[key]
    ELSE {}

HasReturned(out) == out.state = "returned"

Selected(out) == Range(out.targets)

\* the family display names a returned matrix lists, in either mode
FamiliesIn(out) ==
    IF base_args.multi_arch
    THEN UNION { { out.matrix[i]["matrix_per_family_json"][j]["amdgpu_family"] :
                     j \in DOMAIN out.matrix[i]["matrix_per_family_json"] } :
                 i \in DOMAIN out.matrix }
    ELSE { out.matrix[i]["family"] : i \in DOMAIN out.matrix }

\* C1: on a pull request whose labels hold "skip-ci" anywhere, both calls
\* return an empty family selection and an empty test selection.
C1_SkipCiEmptiesBoth ==
    /\ (Event = "pull_request" /\ HasLabel(s_skip_ci) /\ HasReturned(linux_output))
          => (linux_output.targets = <<>> /\ linux_output.tests = <<>>)
    /\ (Event = "pull_request" /\ HasLabel(s_skip_ci) /\ HasReturned(windows_output))
          => (windows_output.targets = <<>> /\ windows_output.tests = <<>>)

\* C2: on a pull request labelled "run-all-archs-ci" and not "skip-ci", the
\* family selection a call returns is the union of the three tables' keys.
C2_RunAllArchsSelectsAll ==
    (Event = "pull_request" /\ HasLabel(s_run_all) /\ ~HasLabel(s_skip_ci))
       => /\ HasReturned(linux_output) => Selected(linux_output) = AllKeys
          /\ HasReturned(windows_output) => Selected(windows_output) = AllKeys

C2_Witness ==
    /\ Event = "pull_request"
    /\ Labels = <<l_gfx9999_linux, s_run_all>>
    /\ HasReturned(windows_output)
    /\ Selected(linux_output) = AllKeys
    /\ Selected(windows_output) = AllKeys

\* C3: on a schedule trigger every returned family selection is the union of
\* the three tables' keys, and the decision is test_type "full" with builds
\* enabled, whatever the labels, dispatch inputs and paths are.
C3_ScheduleFullSweep ==
    Event = "schedule"
       => /\ HasReturned(linux_output) => Selected(linux_output) = AllKeys
          /\ HasReturned(windows_output) => Selected(windows_output) = AllKeys
          /\ pc = "done" => (output.test_type = "full" /\ output.enable_build_jobs)

C3_Witness ==
    /\ Event = "schedule"
    /\ pc = "done"
    /\ Labels = <<s_skip_ci>>
    /\ linux_families # <<>>
    /\ Selected(linux_output) = AllKeys
    /\ output.test_type = "full"
    /\ output.enable_build_jobs

\* C4: on a push the returned family selection is the presubmit and
\* postsubmit keys on a long-lived branch ("main") and the presubmit keys on
\* another branch ("feature"), and the returned test list is empty.
C4_PushSelection ==
    Event = "push"
       => /\ HasReturned(linux_output)
                => /\ linux_output.tests = <<>>
                   /\ base_args.branch_name = b_main
                         => Selected(linux_output) = PresubmitKeys \cup PostsubmitKeys
                   /\ base_args.branch_name = b_feature
                         => Selected(linux_output) = PresubmitKeys
          /\ HasReturned(windows_output)
                => /\ windows_output.tests = <<>>
                   /\ base_args.branch_name = b_main
                         => Selected(windows_output) = PresubmitKeys \cup PostsubmitKeys
                   /\ base_args.branch_name = b_feature
                         => Selected(windows_output) = PresubmitKeys

C4_Witness ==
    /\ Event = "push"
    /\ base_args.branch_name = b_main
    /\ Labels = <<l_test_rocblas>>
    /\ linux_families # <<>>
    /\ HasReturned(windows_output)
    /\ Selected(linux_output) = PresubmitKeys \cup PostsubmitKeys
    /\ Selected(linux_output) # PresubmitKeys
    /\ linux_output.tests = <<>>

\* C5: on a pull request without "skip-ci" every presubmit key is in the
\* returned family selection; with no label at all the selection is the
\* presubmit keys and the test list is empty.
C5_PresubmitAlwaysIncluded ==
    (Event = "pull_request" /\ ~HasLabel(s_skip_ci))
       => /\ HasReturned(linux_output)
                => /\ PresubmitKeys \subseteq Selected(linux_output)
                   /\ Labels = <<>> => (Selected(linux_output) = PresubmitKeys
                                        /\ linux_output.tests = <<>>)
          /\ HasReturned(windows_output)
                => /\ PresubmitKeys \subseteq Selected(windows_output)
                   /\ Labels = <<>> => (Selected(windows_output) = PresubmitKeys
                                        /\ windows_output.tests = <<>>)

C5_Witness ==
    /\ Event = "pull_request"
    /\ Labels = <<l_gfx950_linux, l_test_rocblas>>
    /\ HasReturned(linux_output)
    /\ PresubmitKeys \subseteq Selected(linux_output)
    /\ Selected(linux_output) # PresubmitKeys

\* the family a "gfx" label requests: the part before its first hyphen, lowercased
RequestedFamily(label) == Lower(Split(label, "-")[1])

\* every "gfx" label's family is selected exactly when one of the tables has it
GfxLabelsHonoured(out) ==
    \A i \in DOMAIN Labels :
        Contains(Labels[i], s_gfx)
           => (RequestedFamily(Labels[i]) \in Selected(out)
                  <=> RequestedFamily(Labels[i]) \in AllKeys)

\* C6 as claimed: on any pull request, the family of each "gfx" label is in
\* the returned selection if and only if it is a key of one of the three tables.
C6_GfxLabelAnyList ==
    Event = "pull_request"
       => /\ HasReturned(linux_output) => GfxLabelsHonoured(linux_output)
          /\ HasReturned(windows_output) => GfxLabelsHonoured(windows_output)

\* C6 (amended): on a pull request whose labels do not hold "skip-ci", the
\* family of each "gfx" label is in the returned selection if and only if it
\* is a key of one of the three tables; an unknown family does not abort.
C6_GfxLabelOptIn ==
    (Event = "pull_request" /\ ~HasLabel(s_skip_ci))
       => /\ HasReturned(linux_output) => GfxLabelsHonoured(linux_output)
          /\ HasReturned(windows_output) => GfxLabelsHonoured(windows_output)
          /\ (\A i \in DOMAIN Labels : Contains(Labels[i], s_gfx))
                => linux_output.state # "raised" /\ windows_output.state # "raised"

C6_Witness ==
    /\ Event = "pull_request"
    /\ Labels = <<l_gfx9999_linux, l_gfx90X>>
    /\ HasReturned(linux_output)
    /\ <<"g","f","x","9","0","x">> \in Selected(linux_output)
    /\ <<"g","f","x","9","0","x">> \notin PresubmitKeys
    /\ <<"g","f","x","9","9","9","9">> \notin Selected(linux_output)

\* the characters that separate the tokens of a dispatch family string
IsSeparator(c) == c \in Punctuation \/ c \in Whitespace

\* the tokens of s: the maximal runs of characters that are no separator
TokensOf(s) ==
    { SubSeq(s, i, j) : <<i, j>> \in
        { p \in (DOMAIN s) \X (DOMAIN s) :
            /\ p[1] <= p[2]
            /\ \A k \in p[1]..p[2] : ~IsSeparator(s[k])
            /\ p[1] = 1 \/ IsSeparator(s[p[1] - 1])
            /\ p[2] = Len(s) \/ IsSeparator(s[p[2] + 1]) } }

DispatchSelection(families) == { Lower(t) : t \in TokensOf(families) } \cap AllKeys

\* C7: on a workflow_dispatch the returned family selection is the set of the
\* lowercased tokens of the family input that are keys of one of the three
\* tables: nothing else is added, and an empty input selects nothing.
C7_DispatchSelection ==
    Event = "workflow_dispatch"
       => /\ HasReturned(linux_output)
                => Selected(linux_output) = DispatchSelection(linux_families)
          /\ HasReturned(windows_output)
                => Selected(windows_output) = DispatchSelection(windows_families)

C7_Witness ==
    /\ Event = "workflow_dispatch"
    /\ linux_families = DispatchA.linux_families
    /\ HasReturned(linux_output)
    /\ HasReturned(windows_output)
    /\ linux_output.targets = << <<"g","f","x","9","4","x">> >>
    /\ windows_output.targets = << <<"g","f","x","1","1","0","x">> >>

\* the keys filter_known_names validates against in the call at hand
ValidatingKeys ==
    IF call.name_type = "target" THEN DOMAIN call.target_matrix[1] ELSE test_matrix

\* the positions of the requested names whose lowercased form is known
KnownPositions == { i \in DOMAIN call.requested_names :
                      Lower(call.requested_names[i]) \in ValidatingKeys }

\* the k-th known position, counted from 1
KnownPosition(k) ==
    CHOOSE i \in KnownPositions : Cardinality({ j \in KnownPositions : j <= i }) = k

\* C8: filter_known_names returns, in input order, the lowercased forms of
\* exactly the requested names whose lowercased form is a key of the
\* validating table, and raises nothing for the others.
C8_FilterKnownNames ==
    (call.op = "filter_known_names" /\ pc = "returned")
       => /\ ret.error = "none"
          /\ Len(ret.names) = Cardinality(KnownPositions)
          /\ \A k \in DOMAIN ret.names :
                ret.names[k] = Lower(call.requested_names[KnownPosition(k)])
          /\ \A k \in DOMAIN ret.names : ret.names[k] \in ValidatingKeys

C8_Witness ==
    /\ call.op = "filter_known_names"
    /\ pc = "returned"
    /\ call.name_type = "test"
    /\ call.requested_names = << <<"b","o","g","u","s">>, <<"R","o","c","B","L","A","S">>,
                                 <<"r","o","c","b","l","a","s">> >>
    /\ ret.names = << <<"r","o","c","b","l","a","s">>, <<"r","o","c","b","l","a","s">> >>

\* the variant table entry of the requested variant on platform
RequestedVariantInfo(platform) == all_build_variants[platform][base_args.build_variant]

\* the selected keys whose entry for platform allows the requested variant
KeysAllowing(out, platform) ==
    { key \in Selected(out) :
        /\ platform \in PlatformsOf(key)
        /\ base_args.build_variant \in Range(EntryOf(key, platform)["build_variants"]) }

\* each row carries the requested variant's fields and belongs to a selected
\* family that allows the variant; a family that does not allow it has no row
RowsMatchVariant(out, platform) ==
    /\ \A i \in DOMAIN out.matrix :
          /\ \A field \in DOMAIN RequestedVariantInfo(platform) :
                /\ field \in DOMAIN out.matrix[i]
                /\ out.matrix[i][field] = RequestedVariantInfo(platform)[field]
          /\ \E key \in KeysAllowing(out, platform) :
                EntryOf(key, platform)["family"] = out.matrix[i]["family"]
    /\ \A key \in Selected(out) \ KeysAllowing(out, platform) :
          \A p \in PlatformsOf(key) :
              EntryOf(key, p)["family"] \notin FamiliesIn(out)

\* C9: in standard mode every returned row carries the fields of the one
\* requested build variant, which its family's entry for the platform allows;
\* a selected family whose list lacks the variant has no row.
C9_RowsOfRequestedVariant ==
    ~base_args.multi_arch
       => /\ (HasReturned(linux_output) /\ linux_output.matrix # <<>>)
                => RowsMatchVariant(linux_output, "linux")
          /\ (HasReturned(windows_output) /\ windows_output.matrix # <<>>)
                => RowsMatchVariant(windows_output, "windows")
          /\ (HasReturned(linux_output) /\ linux_output.matrix = <<>>)
                => KeysAllowing(linux_output, "linux") = {}
          /\ (HasReturned(windows_output) /\ windows_output.matrix = <<>>)
                => KeysAllowing(windows_output, "windows") = {}

C9_Witness ==
    /\ ~base_args.multi_arch
    /\ base_args.build_variant = "asan"
    /\ HasReturned(linux_output)
    /\ <<"g","f","x","1","1","0","x">> \in Selected(linux_output)
    /\ FamiliesIn(linux_output) = {"gfx94X-dcgpu"}
    /\ linux_output.matrix[1]["build_variant_cmake_preset"] = "linux-release-asan"

\* the display names of the selected families that have no entry for platform
NamesWithoutPlatform(out, platform) ==
    UNION { { EntryOf(key, p)["family"] : p \in PlatformsOf(key) } :
            key \in { k \in Selected(out) : platform \notin PlatformsOf(k) } }

\* the display names of the selected families that have a row or a group
\* member to give
NamesExpected(out, platform) ==
    { EntryOf(key, platform)["family"] : key \in KeysAllowing(out, platform) }

\* C10: a selected family that has no entry for the platform yields no row
\* and no member of a multi-arch group, and the other selected families are
\* all listed.
C10_NoPlatformNoRow ==
    /\ HasReturned(linux_output)
          => /\ NamesWithoutPlatform(linux_output, "linux") \cap FamiliesIn(linux_output) = {}
             /\ FamiliesIn(linux_output) = NamesExpected(linux_output, "linux")
    /\ HasReturned(windows_output)
          => /\ NamesWithoutPlatform(windows_output, "windows")
                   \cap FamiliesIn(windows_output) = {}
             /\ FamiliesIn(windows_output) = NamesExpected(windows_output, "windows")

C10_Witness ==
    /\ base_args.multi_arch
    /\ HasReturned(windows_output)
    /\ <<"g","f","x","9","4","x">> \in Selected(windows_output)
    /\ "gfx94X-dcgpu" \in FamiliesIn(linux_output)
    /\ "gfx94X-dcgpu" \notin FamiliesIn(windows_output)
    /\ "gfx110X-all" \in FamiliesIn(windows_output)


\* the family flag or the variant flag asks for a tolerated failure
ExpectsFailure(key, platform) ==
    \/ Get(EntryOf(key, platform), "expect_failure", FALSE)
    \/ Get(RequestedVariantInfo(platform), "expect_failure", FALSE)

\* each row of a family whose entry or variant expects failure says so
ExpectFailureKept(out, platform) ==
    \A i \in DOMAIN out.matrix :
        \A key \in KeysAllowing(out, platform) :
            (/\ EntryOf(key, platform)["family"] = out.matrix[i]["family"]
             /\ ExpectsFailure(key, platform))
               => Get(out.matrix[i], "expect_failure", FALSE)

NoRepeat(xs) == \A i, j \in DOMAIN xs : i # j => xs[i] # xs[j]

\* the family display names of the rows, or of the members of each group
FamilyNames(rows) == [i \in DOMAIN rows |-> rows[i]["family"]]

MemberNames(group) ==
    [j \in DOMAIN group["matrix_per_family_json"] |->
        group["matrix_per_family_json"][j]["amdgpu_family"]]

\* C12: what one matrix_generator call returns holds no duplicate: no test
\* name twice, no family twice in the selection, and no two rows (or two
\* members of a group) for the same family, the variant and platform being
\* those of the call.
NoDuplicates(out) ==
    /\ NoRepeat(out.tests)
    /\ NoRepeat(out.targets)
    /\ IF base_args.multi_arch
       THEN \A i \in DOMAIN out.matrix : NoRepeat(MemberNames(out.matrix[i]))
       ELSE NoRepeat(FamilyNames(out.matrix))

C12_NoDuplicates ==
    /\ HasReturned(linux_output)
          => /\ NoDuplicates(linux_output)
             /\ ~base_args.multi_arch
                   => Len(linux_output.matrix)
                         = Cardinality(KeysAllowing(linux_output, "linux"))
    /\ HasReturned(windows_output)
          => /\ NoDuplicates(windows_output)
             /\ ~base_args.multi_arch
                   => Len(windows_output.matrix)
                         = Cardinality(KeysAllowing(windows_output, "windows"))

C12_Witness ==
    /\ Event = "pull_request"
    /\ Labels = <<l_gfx950_linux, l_gfx950_linux>>
    /\ ~base_args.multi_arch
    /\ HasReturned(linux_output)
    /\ Cardinality({ i \in DOMAIN linux_output.matrix :
                       linux_output.matrix[i]["family"] = "gfx950-dcgpu" }) = 1

\* the member of a group is built from the entry of one selected key
MemberOfSomeKey(member, out, platform) ==
    \E key \in KeysAllowing(out, platform) :
        /\ member["amdgpu_family"] = EntryOf(key, platform)["family"]
        /\ member["test-runs-on"] = Get(EntryOf(key, platform), "test-runs-on", "")
        /\ member["sanity_check_only_for_family"] =
               Get(EntryOf(key, platform), "sanity_check_only_for_family", FALSE)

SuffixOrRelease(platform) ==
    IF RequestedVariantInfo(platform)["build_variant_suffix"] = "" THEN "release"
    ELSE RequestedVariantInfo(platform)["build_variant_suffix"]

OneGroup(out, platform) ==
    IF NamesExpected(out, platform) = {} THEN out.matrix = <<>>
    ELSE /\ Len(out.matrix) = 1
         /\ Range(MemberNames(out.matrix[1])) = NamesExpected(out, platform)
         /\ NoRepeat(MemberNames(out.matrix[1]))
         /\ \A j \in DOMAIN out.matrix[1]["matrix_per_family_json"] :
               MemberOfSomeKey(out.matrix[1]["matrix_per_family_json"][j], out, platform)
         /\ out.matrix[1]["artifact_group"] = "multi-arch-" \o SuffixOrRelease(platform)

\* C13: in multi-arch mode a call returns one group when some selected family
\* allows the requested variant on the platform and none otherwise; the group
\* lists each such display name once, with the runner label and the sanity
\* flag of its entry, under artifact_group "multi-arch-<suffix or release>".
C13_OneGroupPerVariant ==
    base_args.multi_arch
       => /\ HasReturned(linux_output) => OneGroup(linux_output, "linux")
          /\ HasReturned(windows_output) => OneGroup(windows_output, "windows")

C13_Witness ==
    /\ base_args.multi_arch
    /\ base_args.build_variant = "asan"
    /\ HasReturned(windows_output)
    /\ {k_gfx94x, k_gfx942} \subseteq KeysAllowing(linux_output, "linux")
    /\ Len(linux_output.matrix) = 1
    /\ linux_output.matrix[1]["artifact_group"] = "multi-arch-asan"
    /\ Cardinality({ j \in DOMAIN linux_output.matrix[1]["matrix_per_family_json"] :
                       linux_output.matrix[1]["matrix_per_family_json"][j]["amdgpu_family"]
                          = "gfx94X-dcgpu" }) = 1
    /\ windows_output.matrix = <<>>

\* the three tables before any call
InitialTables ==
    [presubmit |-> Presubmit0, postsubmit |-> Postsubmit0, nightly |-> Nightly0]

\* the three tables after one application of the overlay to the initial ones
OnceApplied ==
    IF environ.load_test_runners_from_var
    THEN load_test_runner_from_gh_variables(InitialTables,
                                            environ.ROCM_THEROCK_TEST_RUNNERS).matrix_map
    ELSE InitialTables

OverlayCalled == call.op = "get_all_families_for_trigger_types" /\ ret.calls >= 1

\* C14: after any number of calls of get_all_families_for_trigger_types with
\* the same mapping the three tables are what one application of the overlay
\* leaves: the second and later applications change nothing.
C14_OverlayIdempotent == OverlayCalled => matrix_map = OnceApplied

C14_Witness ==
    /\ OverlayCalled
    /\ ret.calls = MaxCalls
    /\ environ.load_test_runners_from_var
    /\ environ.ROCM_THEROCK_TEST_RUNNERS = RunnersObject
    /\ matrix_map # InitialTables
    /\ matrix_map = OnceApplied

\* the mapping names the pair (key, platform) and gives it label
MappingGives(key, platform, label) ==
    /\ environ.load_test_runners_from_var
    /\ \E i \in DOMAIN environ.ROCM_THEROCK_TEST_RUNNERS.items :
          LET item == environ.ROCM_THEROCK_TEST_RUNNERS.items[i] IN
          /\ item.key = key
          /\ \E j \in DOMAIN item.platforms :
                item.platforms[j] = [platform |-> platform, label |-> label]

\* table differs from table0 in runner labels the mapping gives, and in nothing else
OnlyRunnersChanged(table, table0) ==
    /\ DOMAIN table = DOMAIN table0
    /\ \A key \in DOMAIN table0 :
          /\ DOMAIN table[key] = DOMAIN table0[key]
          /\ \A platform \in DOMAIN table0[key] :
                /\ Del(table[key][platform], "test-runs-on")
                      = Del(table0[key][platform], "test-runs-on")
                /\ "test-runs-on" \in DOMAIN table[key][platform]
                /\ \/ table[key][platform]["test-runs-on"]
                         = table0[key][platform]["test-runs-on"]
                   \/ MappingGives(key, platform, table[key][platform]["test-runs-on"])

\* C15: the overlay changes only the "test-runs-on" of the (family, platform)
\* pairs that the mapping and a table both hold: no other field, no other
\* entry, no new family or platform, and not the build-variant table.
C15_OverlayFrame ==
    call.op = "get_all_families_for_trigger_types"
       => /\ OnlyRunnersChanged(amdgpu_family_info_matrix_presubmit, Presubmit0)
          /\ OnlyRunnersChanged(amdgpu_family_info_matrix_postsubmit, Postsubmit0)
          /\ OnlyRunnersChanged(amdgpu_family_info_matrix_nightly, Nightly0)
          /\ all_build_variants = BuildVariants0

C15_Witness ==
    /\ OverlayCalled
    /\ environ.ROCM_THEROCK_TEST_RUNNERS = RunnersObject
    /\ amdgpu_family_info_matrix_presubmit[k_gfx94x]["linux"]["test-runs-on"]
          = "linux-mi325-1gpu-ossci-rocm"
    /\ amdgpu_family_info_matrix_nightly[k_gfx90x]["windows"]["test-runs-on"]
          = "windows-gfx90X-gpu-rocm"
    /\ amdgpu_family_info_matrix_nightly[k_gfx90x]["linux"] = Nightly0[k_gfx90x]["linux"]
    /\ DOMAIN amdgpu_family_info_matrix_presubmit[k_gfx94x] = {"linux"}

\* the runner data is no JSON object of platform-to-label objects
Malformed(text) ==
    \/ ~text.parses
    \/ ~text.is_object
    \/ \E i \in DOMAIN text.items : ~text.items[i].is_object

\* C16: with malformed runner data the overlay is a no-op: the call raises
\* nothing and leaves the three tables as they were.
C16_MalformedIsNoOp ==
    (/\ OverlayCalled
     /\ environ.load_test_runners_from_var
     /\ Malformed(environ.ROCM_THEROCK_TEST_RUNNERS))
       => /\ ret.error = "none"
          /\ matrix_map = InitialTables

\* C17: the decision is "full" if and only if the trigger is schedule, or a
\* modified path is a submodule path, or the test list of Linux or of Windows
\* is not empty; otherwise it is "smoke".
C17_TestTypeDecision ==
    pc = "done"
       => /\ output.test_type \in {"full", "smoke"}
          /\ output.test_type = "full"
                <=> \/ Event = "schedule"
                    \/ Range(modified_paths) \cap Range(submodule_paths) # {}
                    \/ linux_output.tests # <<>>
                    \/ windows_output.tests # <<>>

C17_Witness ==
    /\ pc = "done"
    /\ Event = "push"
    /\ Range(modified_paths) \cap Range(submodule_paths) = {"rocm-libraries"}
    /\ linux_output.tests = <<>>
    /\ windows_output.tests = <<>>
    /\ output.test_type = "full"

\* the platform has no variant table, or an entry for it has no variant list
ConfigurationError(platform) ==
    \/ platform \notin DOMAIN all_build_variants
    \/ \E key \in AllKeys :
          /\ platform \in PlatformsOf(key)
          /\ "build_variants" \notin DOMAIN EntryOf(key, platform)

\* C18: a configuration error aborts the call in both modes.  On schedule
\* every family is selected, so a call made with a platform that has no
\* variant table, or with an entry that has no variant list, raises.
C18_ConfigurationErrorAborts ==
    Event = "schedule"
       => /\ (linux_output.state # "pending" /\ ConfigurationError("linux"))
                => linux_output.state = "raised"
          /\ (windows_output.state # "pending" /\ ConfigurationError("windows"))
                => windows_output.state = "raised"

FourTriggers == {"pull_request", "push", "schedule", "workflow_dispatch"}

\* C19: on an event that is none of the four triggers the first call raises
\* AssertionError and returns no row; on each of the four, with any branch,
\* no call raises it.
C19_UnknownTriggerAborts ==
    /\ (Event \notin FourTriggers /\ pc # "start")
          => /\ pc = "aborted"
             /\ linux_output.state = "raised"
             /\ linux_output.error = "AssertionError"
             /\ linux_output.matrix = <<>>
             /\ windows_output.state = "pending"
    /\ Event \in FourTriggers
          => /\ linux_output.error # "AssertionError"
             /\ windows_output.error # "AssertionError"

C19_Witness ==
    /\ Event = "workflow_call"
    /\ pc = "aborted"
    /\ linux_output.error = "AssertionError"

\* the position of the first "skip-ci" label
FirstSkipCi ==
    CHOOSE i \in DOMAIN Labels :
        /\ Labels[i] = s_skip_ci
        /\ \A j \in 1..(i - 1) : Labels[j] # s_skip_ci

\* the arguments of the run with the labels after the first "skip-ci" cut off
CutAfterSkipCi == [base_args EXCEPT !.pr_labels = SubSeq(@, 1, FirstSkipCi)]

\* the call at hand and the call on the cut label list resolve the same
SameSelection(out, families, platform) ==
    /\ (out.state = "raised") <=> (GeneratorCall(CutAfterSkipCi, families, platform).error # "none")
    /\ Range(out.targets) = Range(GeneratorCall(CutAfterSkipCi, families, platform).targets)
    /\ Range(out.tests) = Range(GeneratorCall(CutAfterSkipCi, families, platform).tests)

\* C20: on a pull request nothing after the first "skip-ci" label counts: the
\* families and tests resolved for L1 + ["skip-ci"] + L2 are those resolved
\* for L1 + ["skip-ci"].
C20_NothingAfterSkipCi ==
    (Event = "pull_request" /\ HasLabel(s_skip_ci))
       => /\ linux_output.state # "pending"
                => SameSelection(linux_output, linux_families, "linux")
          /\ windows_output.state # "pending"
                => SameSelection(windows_output, windows_families, "windows")

C20_Witness ==
    /\ Event = "pull_request"
    /\ Labels = <<l_test_rocblas, s_skip_ci, l_gfx90X>>
    /\ HasReturned(windows_output)
    /\ k_gfx90x \notin Selected(windows_output)
    /\ windows_output.tests = << <<"r","o","c","b","l","a","s">> >>

\* the artifact suffix of the requested variant, with its hyphen, or nothing
HyphenSuffix(platform) ==
    IF RequestedVariantInfo(platform)["build_variant_suffix"] = "" THEN ""
    ELSE "-" \o RequestedVariantInfo(platform)["build_variant_suffix"]

ArtifactGroupsNamed(out, platform) ==
    /\ \A i \in DOMAIN out.matrix :
          out.matrix[i]["artifact_group"] = out.matrix[i]["family"] \o HyphenSuffix(platform)
    /\ \A i, j \in DOMAIN out.matrix :
          out.matrix[i]["artifact_group"] = out.matrix[j]["artifact_group"]
             => /\ out.matrix[i]["family"] = out.matrix[j]["family"]
                /\ out.matrix[i]["build_variant_label"] = out.matrix[j]["build_variant_label"]

\* C21: in standard mode a row's artifact_group is its family display name,
\* followed by "-" and the variant's suffix when the suffix is not empty; two
\* rows of one output with the same artifact_group have the same display
\* name and variant.
C21_ArtifactGroup ==
    ~base_args.multi_arch
       => /\ HasReturned(linux_output) => ArtifactGroupsNamed(linux_output, "linux")
          /\ HasReturned(windows_output) => ArtifactGroupsNamed(windows_output, "windows")

C21_Witness ==
    /\ ~base_args.multi_arch
    /\ base_args.build_variant = "asan"
    /\ Event = "push"
    /\ base_args.branch_name = b_main
    /\ HasReturned(linux_output)
    /\ { linux_output.matrix[i]["artifact_group"] : i \in DOMAIN linux_output.matrix }
          = {"gfx94X-dcgpu-asan", "gfx950-dcgpu-asan"}

\* the labels the expansion scans: the PR labels, then the dispatch options
LabelOptions == Labels \o get_workflow_dispatch_additional_label_options(base_args)

RunnerLabelPositions ==
    { i \in DOMAIN LabelOptions : Contains(LabelOptions[i], s_test_runner) }

\* the first label containing "test_runner" and the kernel type it names
FirstRunnerLabel ==
    LabelOptions[CHOOSE i \in RunnerLabelPositions : \A j \in RunnerLabelPositions : i <= j]

KernelType == Split(FirstRunnerLabel, ":")[2]

HasKernelRunner(entry) ==
    /\ "test-runs-on-kernel" \in DOMAIN entry
    /\ KernelType \in DOMAIN entry["test-runs-on-kernel"]

\* the runner labels the row of entry carries under the label options at hand
RunnersAsLabelled(row, entry) ==
    IF RunnerLabelPositions = {}
    THEN /\ row["test-runs-on"] = entry["test-runs-on"]
         /\ "test-runs-on-multi-gpu" \in DOMAIN entry
               => row["test-runs-on-multi-gpu"] = entry["test-runs-on-multi-gpu"]
    ELSE IF HasKernelRunner(entry)
    THEN row["test-runs-on"] = entry["test-runs-on-kernel"][KernelType]
    ELSE /\ row["test-runs-on"] = ""
         /\ "test-runs-on-multi-gpu" \in DOMAIN entry => row["test-runs-on-multi-gpu"] = ""
         /\ "test-runs-on-multi-gpu" \in DOMAIN row => "test-runs-on-multi-gpu" \in DOMAIN entry

RowsAsLabelled(out, platform) ==
    \A i \in DOMAIN out.matrix :
        \A key \in KeysAllowing(out, platform) :
            EntryOf(key, platform)["family"] = out.matrix[i]["family"]
               => RunnersAsLabelled(out.matrix[i], EntryOf(key, platform))

\* C22: in standard mode, when a label option contains "test_runner" and
\* names kernel type K, a row whose family has K in its kernel runner map gets
\* that runner label, and every other row gets an empty runner label and,
\* where its entry has one, an empty multi-GPU runner label; with no such
\* label every row keeps the runner labels of its entry.
C22_TestRunnerLabel ==
    ~base_args.multi_arch
       => /\ HasReturned(linux_output) => RowsAsLabelled(linux_output, "linux")
          /\ HasReturned(windows_output) => RowsAsLabelled(windows_output, "windows")

C22_Witness ==
    /\ ~base_args.multi_arch
    /\ Event = "pull_request"
    /\ Labels = <<l_test_runner_oem>>
    /\ HasReturned(linux_output)
    /\ \E i, j \in DOMAIN linux_output.matrix :
          /\ linux_output.matrix[i]["family"] = "gfx1151"
          /\ linux_output.matrix[i]["test-runs-on"] = "linux-strix-halo-gpu-rocm-oem"
          /\ linux_output.matrix[j]["family"] = "gfx94X-dcgpu"
          /\ linux_output.matrix[j]["test-runs-on"] = ""
          /\ linux_output.matrix[j]["test-runs-on-multi-gpu"] = ""

\* the "test_runner" labels after the first one
LaterRunnerPositions ==
    { i \in RunnerLabelPositions : \E j \in RunnerLabelPositions : j < i }

\* the elements of seq from position i on whose position, shifted by offset,
\* is not in dropped
RECURSIVE DropAt(_, _, _, _)
DropAt(seq, i, offset, dropped) ==
    IF i > Len(seq) THEN <<>>
    ELSE IF (i + offset) \in dropped THEN DropAt(seq, i + 1, offset, dropped)
    ELSE <<seq[i]>> \o DropAt(seq, i + 1, offset, dropped)

\* ",".join(options)
RECURSIVE JoinComma(_, _)
JoinComma(options, i) ==
    IF i > Len(options) THEN <<>>
    ELSE IF i = Len(options) THEN options[i]
    ELSE options[i] \o <<",">> \o JoinComma(options, i + 1)

\* the arguments of the run without the later "test_runner" labels
WithoutLaterRunnerLabels ==
    [base_args EXCEPT
        !.pr_labels = DropAt(@, 1, 0, LaterRunnerPositions),
        !.workflow_dispatch_additional_label_options =
            JoinComma(DropAt(get_workflow_dispatch_additional_label_options(base_args),
                             1, Len(Labels), LaterRunnerPositions), 1)]

SameRows(out, families, platform) ==
    /\ out.error = GeneratorCall(WithoutLaterRunnerLabels, families, platform).error
    /\ out.matrix = GeneratorCall(WithoutLaterRunnerLabels, families, platform).matrix

\* C23: when several label options contain "test_runner", the first one in
\* scan order (PR labels, then dispatch label options) decides alone: the
\* rows of the call are the rows of the call without the later ones.
C23_FirstTestRunnerWins ==
    LaterRunnerPositions # {}
       => /\ linux_output.state # "pending"
                => SameRows(linux_output, linux_families, "linux")
          /\ windows_output.state # "pending"
                => SameRows(windows_output, windows_families, "windows")

C23_Witness ==
    /\ ~base_args.multi_arch
    /\ Event = "pull_request"
    /\ Labels = <<l_test_runner_lts>>
    /\ get_workflow_dispatch_additional_label_options(base_args) = <<l_test_runner_oem>>
    /\ HasReturned(linux_output)
    /\ \E i \in DOMAIN linux_output.matrix :
          /\ linux_output.matrix[i]["family"] = "gfx1151"
          /\ linux_output.matrix[i]["test-runs-on"] = ""

\* C24: the rationale reported with test_type is that of the first condition
\* that holds, in the order schedule, submodule change, requested tests: on a
\* trigger other than schedule with a modified submodule path and a requested
\* test, the rationale is the submodule change.
C24_FirstReasonReported ==
    (/\ pc = "done"
     /\ Event # "schedule"
     /\ Range(modified_paths) \cap Range(submodule_paths) # {}
     /\ (linux_output.tests # <<>> \/ windows_output.tests # <<>>))
       => output.test_type_reason.kind = "submodule"

\* C25: on pull_request and workflow_dispatch no label containing "test:"
\* aborts the resolution, whatever follows the marker.
C25_TestLabelNeverAborts ==
    Event \in {"pull_request", "workflow_dispatch"}
       => /\ linux_output.error # "ValueError"
          /\ windows_output.error # "ValueError"

b_release_prefix == <<"r","e","l","e","a","s","e","/","t","h","e","r","o","c","k","-">>

\* the names the rule admits, character by character
IsLongLivedName(name) ==
    \/ name = <<"m","a","i","n">>
    \/ name = <<"t","e","s","t","-","b","r","a","n","c","h">>
    \/ /\ Len(name) >= Len(b_release_prefix)
       /\ \A i \in DOMAIN b_release_prefix : name[i] = b_release_prefix[i]

\* names that only hold or resemble a long-lived name
NotLongLivedNames ==
    { <<>>,
      <<"m","y","-","m","a","i","n">>,
      <<"m","a","i","n","l","i","n","e">>,
      <<"x","/","r","e","l","e","a","s","e","/","t","h","e","r","o","c","k","-","1">>,
      <<"M","a","i","n">>, <<"M","A","I","N">>,
      <<"T","e","s","t","-","B","r","a","n","c","h">>,
      <<"R","e","l","e","a","s","e","/","T","h","e","R","o","c","k","-","1">>,
      <<"r","e","l","e","a","s","e","/","t","h","e","r","o","c","k">> }

BranchCallReturned == call.op = "determine_long_lived_branch" /\ pc = "returned"

\* C26: determine_long_lived_branch answers true exactly for "main",
\* "test-branch" and the names that start with "release/therock-"; a name
\* that only contains one of them, the empty name and a name in another case
\* are not long-lived.
C26_LongLivedBranch ==
    BranchCallReturned
       => /\ ret.is_long_lived_branch <=> IsLongLivedName(call.branch_name)
          /\ call.branch_name \in NotLongLivedNames => ~ret.is_long_lived_branch

C26_Witness ==
    /\ BranchCallReturned
    /\ call.branch_name = <<"x","/","r","e","l","e","a","s","e","/","t","h","e","r","o","c","k","-","1">>
    /\ ~ret.is_long_lived_branch

\* a second call with the inputs of the first gives what the first gave
SameAgain(out, families, platform) ==
    /\ out.error = GeneratorCall(base_args, families, platform).error
    /\ out.tests = GeneratorCall(base_args, families, platform).tests
    /\ out.matrix = GeneratorCall(base_args, families, platform).matrix

StaticTable == Nightly0 @@ Postsubmit0 @@ Presubmit0

\* the overlay is on and its mapping names the pair
MappingNames(key, platform) ==
    /\ environ.load_test_runners_from_var
    /\ \E i \in DOMAIN environ.ROCM_THEROCK_TEST_RUNNERS.items :
          /\ environ.ROCM_THEROCK_TEST_RUNNERS.items[i].key = key
          /\ \E j \in DOMAIN environ.ROCM_THEROCK_TEST_RUNNERS.items[i].platforms :
                environ.ROCM_THEROCK_TEST_RUNNERS.items[i].platforms[j].platform = platform

\* label is the runner label the run is to use for the pair: the override
\* when the mapping names the pair, the static label otherwise
IsRunnerOf(label, key, platform) ==
    IF MappingNames(key, platform) THEN MappingGives(key, platform, label)
    ELSE label = Get(StaticTable[key][platform], "test-runs-on", "")

\* the (display name, runner label) pairs a returned matrix lists
RunnersIn(out) ==
    IF base_args.multi_arch
    THEN UNION { { << out.matrix[i]["matrix_per_family_json"][j]["amdgpu_family"],
                      out.matrix[i]["matrix_per_family_json"][j]["test-runs-on"] >> :
                     j \in DOMAIN out.matrix[i]["matrix_per_family_json"] } :
                 i \in DOMAIN out.matrix }
    ELSE { << out.matrix[i]["family"], out.matrix[i]["test-runs-on"] >> :
             i \in DOMAIN out.matrix }

RunnersAsOverlaid(out, platform) ==
    /\ matrix_map = OnceApplied
    /\ (base_args.multi_arch \/ RunnerLabelPositions = {})
          => \A pair \in RunnersIn(out) :
                \A key \in DOMAIN StaticTable :
                    (/\ platform \in DOMAIN StaticTable[key]
                     /\ StaticTable[key][platform]["family"] = pair[1])
                       => IsRunnerOf(pair[2], key, platform)

\* C28: with the flag on the overlay is applied before any lookup of the
\* run, so that a row or group member of a pair the mapping names carries the
\* override runner label and never the static one; with the flag off the
\* tables are never modified and the static labels are used.
C28_OverlayBeforeLookup ==
    /\ ~environ.load_test_runners_from_var => matrix_map = InitialTables
    /\ HasReturned(linux_output) => RunnersAsOverlaid(linux_output, "linux")
    /\ HasReturned(windows_output) => RunnersAsOverlaid(windows_output, "windows")

C28_Witness ==
    /\ environ.load_test_runners_from_var
    /\ ~base_args.multi_arch
    /\ Event = "schedule"
    /\ RunnerLabelPositions = {}
    /\ pc = "done"
    /\ <<"gfx94X-dcgpu", "linux-mi325-1gpu-ossci-rocm">> \in RunnersIn(linux_output)
    /\ <<"gfx90X-dcgpu", "windows-gfx90X-gpu-rocm">> \in RunnersIn(windows_output)
    /\ Presubmit0[k_gfx94x]["linux"]["test-runs-on"] # "linux-mi325-1gpu-ossci-rocm"

\* the family display names of rows, made in multi-arch mode or in standard mode
FamiliesOfRows(rows, multi_arch) ==
    IF multi_arch
    THEN UNION { { rows[i]["matrix_per_family_json"][j]["amdgpu_family"] :
                     j \in DOMAIN rows[i]["matrix_per_family_json"] } :
                 i \in DOMAIN rows }
    ELSE { rows[i]["family"] : i \in DOMAIN rows }

\* the arguments of the run in the other expansion mode
OtherMode == [base_args EXCEPT !.multi_arch = ~@]

SameFamiliesInOtherMode(out, families, platform) ==
    GeneratorCall(OtherMode, families, platform).error = "none"
       => /\ FamiliesOfRows(out.matrix, base_args.multi_arch)
                = FamiliesOfRows(GeneratorCall(OtherMode, families, platform).matrix,
                                 ~base_args.multi_arch)
          /\ out.matrix = <<>>
                <=> GeneratorCall(OtherMode, families, platform).matrix = <<>>

\* a multi-arch output: each member has the runner label of its entry, whatever
\* the label options say, and each group the expect_failure of the variant
GroupsAsEntries(out, platform) ==
    \A i \in DOMAIN out.matrix :
        /\ out.matrix[i]["expect_failure"]
              = Get(RequestedVariantInfo(platform), "expect_failure", FALSE)
        /\ \A j \in DOMAIN out.matrix[i]["matrix_per_family_json"] :
              \A key \in KeysAllowing(out, platform) :
                  EntryOf(key, platform)["family"]
                        = out.matrix[i]["matrix_per_family_json"][j]["amdgpu_family"]
                     => out.matrix[i]["matrix_per_family_json"][j]["test-runs-on"]
                           = Get(EntryOf(key, platform), "test-runs-on", "")

ModesAgree(out, families, platform) ==
    /\ SameFamiliesInOtherMode(out, families, platform)
    /\ base_args.multi_arch => GroupsAsEntries(out, platform)

\* C29: for the same trigger, inputs, platform and variant the two modes
\* list the same set of family display names and are both empty or both not;
\* a multi-arch member carries its entry's runner label, test_runner labels
\* notwithstanding, and a group's expect_failure is that of the variant.
C29_ModesCoverSameFamilies ==
    /\ HasReturned(linux_output) => ModesAgree(linux_output, linux_families, "linux")
    /\ HasReturned(windows_output) => ModesAgree(windows_output, windows_families, "windows")

C29_Witness ==
    /\ base_args.multi_arch
    /\ Event = "pull_request"
    /\ Labels = <<l_test_runner_oem>>
    /\ HasReturned(linux_output)
    /\ Len(linux_output.matrix) = 1
    /\ ~linux_output.matrix[1]["expect_failure"]
    /\ \E j \in DOMAIN linux_output.matrix[1]["matrix_per_family_json"] :
          /\ linux_output.matrix[1]["matrix_per_family_json"][j]["amdgpu_family"] = "gfx94X-dcgpu"
          /\ linux_output.matrix[1]["matrix_per_family_json"][j]["test-runs-on"] # ""
    /\ FamiliesOfRows(GeneratorCall(OtherMode, linux_families, "linux").matrix, FALSE)
          = FamiliesOfRows(linux_output.matrix, TRUE)
    /\ \E i \in DOMAIN GeneratorCall(OtherMode, linux_families, "linux").matrix :
          GeneratorCall(OtherMode, linux_families, "linux").matrix[i]["test-runs-on"] = ""
====
